---------------------------- MODULE Spec2Model ----------------------------
(***************************************************************************)
(* TimeHarp 260 PCIe driver (th260pcie): the per-card state table, the     *)
(* busmastered DMA trigger, the read path with its interrupt handler, the  *)
(* mmap gate and the PCI attach/detach lifecycle, as state machines.       *)
(* Labels such as L557 are line numbers of the driver source.              *)
(***************************************************************************)
EXTENDS Integers, Sequences, FiniteSets, TLC

VARIABLES
    th260_cdev,   \* the device table: minor -> struct th260_cdev
    lock,         \* per card spinlock: its holder, <<kind, thread>>
    hw,           \* per PCI device: the register window's hardware state
    iolog,        \* register writes of the most recent driver routine
    rd,           \* per reader thread: position and locals of th260_read
    isr,          \* per card: position and locals of th260_interrupt
    outcomes,     \* error outcomes of read calls seen so far: {<<why, rc>>}
    mm,           \* per mapping thread: position and locals of th260_mmap
    mlog,         \* mmap calls, returns and unmaps of a sequential run
    pci,          \* per PCI device: what the PCI core keeps for it
    kern,         \* the kernel objects the driver holds, and the module
    last          \* the most recent attach, detach, load or unload call

cardVars == <<th260_cdev, lock>>
hwVars   == <<hw, iolog>>
readVars == <<rd, isr, outcomes>>
mmapVars == <<mm, mlog>>
lifeVars == <<pci, kern, last>>
vars     == <<th260_cdev, lock, hw, iolog, rd, isr, outcomes, mm, mlog,
              pci, kern, last>>

---------------------------------------------------------------------------
(* Program constants *)

MAX_DEVICES == 4
VER_MAJOR == 1
VER_MINOR == 0
REV_MAJOR == 0
REV_MINOR == 0
BAR_0_LEN == 65536
PAGE_SHIFT == 12
MAX_TLPCOUNT == 65535

DCR_OFFSET == 0
DCSR_OFFSET == 4
WRITE_ADDR_OFFSET == 8
WRITE_SIZE_OFFSET == 12
WRITE_COUNT_OFFSET == 16
TRANS_SIZE_OFFSET == 64
MB_SERIAL_OFFSET == 320

DCSR_ENABLE == 1
DCSR_INT_DISABLE == 128
BUSMASTERED_READ_DONE == 256
DCSR_RESET_VALUE == 8388736

EINTR == 4
EAGAIN == 11
EACCES == 13
EFAULT == 14
EBUSY == 16
ENODEV == 19
EINVAL == 22
ERESTARTSYS == 512

NULL == 0
NoMap == <<0, 0>>

Unlocked == <<"free", 0>>
IsrOwner == <<"isr", 0>>
ReadOwner(t) == <<"read", t>>
MmapOwner(t) == <<"mmap", t>>

---------------------------------------------------------------------------
(* Bounds of the model *)

NumPciDevs == 2          \* physical cards present on the bus
MaxSmallDwords == 40     \* dense range of dword counts tried by dma_start
MaxTailDwords == 3       \* dword counts just below each buffer capacity
MaxReadCalls == 2        \* read calls issued per reader thread
MaxChunks == 2           \* do-loop iterations explored per read call
MaxLog == 7              \* mmap events recorded in mlog
MaxProbes == 2           \* th260_probe calls in a run
MaxIsrLoops == 3     \* passes of the acknowledge loop that are counted and logged

Minors == 0 .. (MAX_DEVICES - 1)
PciDevs == 1 .. NumPciDevs
Readers == {1}
Mappers == {1, 2}

---------------------------------------------------------------------------
(* Helpers *)

RECURSIVE Pow2(_)
Pow2(n) == IF n = 0 THEN 1 ELSE 2 * Pow2(n - 1)

MIN(a, b) == IF a < b THEN a ELSE b

PAGE_SIZE == Pow2(PAGE_SHIFT)

BUFFER_SIZE(ord) == Pow2(ord + PAGE_SHIFT)

PAGE_ALIGN(x) == ((x + PAGE_SIZE - 1) \div PAGE_SIZE) * PAGE_SIZE

RECURSIVE get_order_from(_, _)
get_order_from(size, ord) ==
    IF BUFFER_SIZE(ord) >= size THEN ord ELSE get_order_from(size, ord + 1)

get_order(size) == get_order_from(size, 0)

(* size_t values: a negative integer d stands for 2^64 + d, the result of  *)
(* an unsigned subtraction that wrapped.                                    *)
USizeMin(a, b) == IF a < 0 THEN b ELSE MIN(a, b)

USizePositive(a) == a # 0

---------------------------------------------------------------------------
(* struct th260_cdev and th260_cdev_init *)

EmptyCard(i) ==
    [minor |-> i, busy |-> 0, pci_dev |-> NULL, cdev |-> NULL,
     bar0base |-> NoMap, bar0offset |-> 0, serial |-> 0, maxtlpsize |-> 0,
     dmabuf |-> NULL, dmabuf_order |-> 0, bytes_done |-> 0,
     irq_received |-> 0, dmacount |-> 0]

th260_cdev_init == [i \in Minors |-> EmptyCard(i)]

RegDev(c) == c.bar0base[2]

---------------------------------------------------------------------------
(* The card's register window as the driver uses it.  en: a burst is       *)
(* programmed and running; done: the BUSMASTERED_READ_DONE status bit;      *)
(* intdis: bit 7 of DCSR; dltrsstat: the transfer-capability register;      *)
(* bar0: the physical address of the window.                                *)

HwIdle ==
    [en |-> FALSE, intdis |-> TRUE, done |-> FALSE,
     waddr |-> 0, wsize |-> 0, wcount |-> 0, bar0 |-> 0, dltrsstat |-> 0,
     stuck |-> FALSE]

(* pci_resource_start(pdev, BAR_0): the physical address of the window *)
pci_resource_start(p) == hw[p].bar0

IoRead32Dcsr(h) ==
    (IF h.en THEN DCSR_ENABLE ELSE 0)
    + (IF h.intdis THEN DCSR_INT_DISABLE ELSE 0)
    + (IF h.done THEN BUSMASTERED_READ_DONE ELSE 0)

IoWrite32(h, off, val) ==
    CASE off = DCR_OFFSET ->
            IF val = 1
            THEN [h EXCEPT !.en = FALSE, !.done = h.stuck /\ h.done]
            ELSE h
      [] off = DCSR_OFFSET ->
            IF val = DCSR_ENABLE
            THEN [h EXCEPT !.en = TRUE, !.intdis = FALSE]
            ELSE [h EXCEPT !.en = FALSE,
                           !.intdis = ((val \div DCSR_INT_DISABLE) % 2 = 1)]
      [] off = WRITE_ADDR_OFFSET  -> [h EXCEPT !.waddr = val]
      [] off = WRITE_SIZE_OFFSET  -> [h EXCEPT !.wsize = val]
      [] off = WRITE_COUNT_OFFSET -> [h EXCEPT !.wcount = val]
      [] OTHER -> h

RECURSIVE IoWriteAll(_, _)
IoWriteAll(h, ws) ==
    IF ws = <<>> THEN h
    ELSE IoWriteAll(IoWrite32(h, Head(ws)[1], Head(ws)[2]), Tail(ws))

ResetPulse == << <<DCR_OFFSET, 1>>, <<DCR_OFFSET, 0>> >>

th260_reset_writes == << <<DCSR_OFFSET, DCSR_RESET_VALUE>> >> \o ResetPulse

---------------------------------------------------------------------------
(* th260_dma_start *)

(* faulty variant: the search halves down to a TLP size of one dword *)
RECURSIVE TlpSearch_HalvesToOne(_, _, _)
TlpSearch_HalvesToOne(tlpsize, ndwords, iters) ==
    LET rest == ndwords % tlpsize
        tlpcount == ndwords \div tlpsize
    IN  IF rest # 0 /\ tlpsize > 1
        THEN TlpSearch_HalvesToOne(tlpsize \div 2, ndwords, iters + 1)
        ELSE [tlpsize |-> tlpsize, tlpcount |-> tlpcount, rest |-> rest,
              iters |-> iters]

RECURSIVE TlpSearch(_, _, _)
TlpSearch(tlpsize, ndwords, iters) ==
    LET rest == ndwords % tlpsize
        tlpcount == ndwords \div tlpsize
    IN  IF rest # 0 /\ tlpsize > 2
        THEN TlpSearch(tlpsize \div 2, ndwords, iters + 1)
        ELSE [tlpsize |-> tlpsize, tlpcount |-> tlpcount, rest |-> rest,
              iters |-> iters]

(* lines 494-507: the reset pulse, then the search from maxtlpsize *)
DmaStartSearch(c) == TlpSearch(c.maxtlpsize, c.dmacount \div 4, 0)

(* faulty variant: the odd-size rejection of line 518 is missing *)
DmaAccepts_NoSizeCheck(c, s) == ~(s.tlpcount > MAX_TLPCOUNT)

(* lines 512-522: the two rejections *)
DmaAccepts(c, s) ==
    /\ ~(s.tlpcount > MAX_TLPCOUNT)
    /\ ~(c.dmacount # s.tlpsize * 4 * s.tlpcount)

(* lines 524-528: the programming writes and the trigger *)
DmaProgramWrites(c, s) ==
    << <<WRITE_ADDR_OFFSET, c.dmabuf>>,
       <<WRITE_SIZE_OFFSET, s.tlpsize>>,
       <<WRITE_COUNT_OFFSET, s.tlpcount>>,
       <<DCSR_OFFSET, DCSR_ENABLE>> >>

NoSearch == [tlpsize |-> 0, tlpcount |-> 0, rest |-> 0, iters |-> 0]

---------------------------------------------------------------------------
(* th260_read.  One action per access to the shared card state; the locals *)
(* count, buffer, total_bytes_read and rc live in rd[t].  N, copied, why    *)
(* and dma record the call for the properties: the count asked for, the     *)
(* bytes copy_to_user delivered, the return path taken, the fate of the     *)
(* last th260_dma_start.  fired tells that the pass of the do-loop in       *)
(* progress has called th260_dma_start, open that the call has not yet      *)
(* seen irq_received set at line 591 since its last th260_dma_start.        *)

IdleReader(m) ==
    [pc |-> "idle", card |-> m, N |-> 0, count |-> 0, buffer |-> 0,
     total |-> 0, rc |-> 0, why |-> "none", s |-> NoSearch, sig |-> FALSE,
     copied |-> 0, calls |-> 0, chunks |-> 0, dma |-> "none", ret |-> 0,
     fired |-> FALSE, open |-> FALSE]

pcard(t) == th260_cdev[rd[t].card]

SetCard(m, c) == th260_cdev' = [th260_cdev EXCEPT ![m] = c]

SetRd(t, r) == rd' = [rd EXCEPT ![t] = r]

IsError(why) == why \in {"nonblock", "efault", "timeout", "signal0", "copyfault"}

(* every return statement of th260_read *)
Return(t, r, value, why) ==
    /\ SetRd(t, [r EXCEPT !.pc = "ret", !.ret = value, !.why = why,
                          !.sig = FALSE])
    /\ outcomes' = IF IsError(why) THEN outcomes \cup {<<why, value>>}
                   ELSE outcomes

(* lines 532-553: entry, the checks that touch no card state *)
ReadCall(t, cnt, nonblock, writable) ==
    LET r == rd[t]
        r0 == [IdleReader(r.card) EXCEPT !.calls = r.calls + 1, !.N = cnt,
                                         !.count = cnt]
    IN  /\ r.pc \in {"idle", "ret"}
        /\ r.calls < MaxReadCalls
        /\ IF cnt = 0 THEN Return(t, r0, 0, "zero")
           ELSE IF nonblock THEN Return(t, r0, -EFAULT, "nonblock")
           ELSE IF ~writable THEN Return(t, r0, -EFAULT, "efault")
           ELSE /\ SetRd(t, [r0 EXCEPT !.pc = "L557"])
                /\ outcomes' = outcomes
        /\ UNCHANGED <<cardVars, hwVars, isr, mmapVars, lifeVars>>

(* line 557: pcard->bytes_done = 0, outside the lock *)
ReadL557(t) ==
    LET r == rd[t] IN
    /\ r.pc = "L557"
    /\ r.chunks < MaxChunks
    /\ SetCard(r.card, [pcard(t) EXCEPT !.bytes_done = 0])
    /\ SetRd(t, [r EXCEPT !.pc = "L558", !.chunks = r.chunks + 1,
                          !.fired = FALSE])
    /\ UNCHANGED <<lock, hwVars, isr, outcomes, mmapVars, lifeVars>>

(* line 558: pcard->dmacount = MIN(count, BUFFER_SIZE(dmabuf_order)) *)
ReadL558(t) ==
    LET r == rd[t]
        c == pcard(t)
    IN  /\ r.pc = "L558"
        /\ SetCard(r.card, [c EXCEPT !.dmacount =
                               USizeMin(r.count, BUFFER_SIZE(c.dmabuf_order))])
        /\ SetRd(t, [r EXCEPT !.pc = "L560"])
        /\ UNCHANGED <<lock, hwVars, isr, outcomes, mmapVars, lifeVars>>

(* line 560: while (pcard->dmacount) *)
ReadL560(t) ==
    LET r == rd[t] IN
    /\ r.pc = "L560"
    /\ SetRd(t, [r EXCEPT !.pc = IF pcard(t).dmacount # 0 THEN "L562"
                                 ELSE "L609"])
    /\ UNCHANGED <<cardVars, hwVars, isr, outcomes, mmapVars, lifeVars>>

(* faulty variant: line 562 does not wait for the lock *)
ReadL562_NoWait(t) ==
    LET r == rd[t] IN
    /\ r.pc = "L562"
    /\ lock' = [lock EXCEPT ![r.card] = ReadOwner(t)]
    /\ SetRd(t, [r EXCEPT !.pc = "L564"])
    /\ UNCHANGED <<th260_cdev, hwVars, isr, outcomes, mmapVars, lifeVars>>

(* line 562: spin_lock_irqsave *)
ReadL562(t) ==
    LET r == rd[t] IN
    /\ r.pc = "L562"
    /\ lock[r.card] = Unlocked
    /\ lock' = [lock EXCEPT ![r.card] = ReadOwner(t)]
    /\ SetRd(t, [r EXCEPT !.pc = "L564"])
    /\ UNCHANGED <<th260_cdev, hwVars, isr, outcomes, mmapVars, lifeVars>>

(* line 564: pcard->irq_received = 0 *)
ReadL564(t) ==
    LET r == rd[t] IN
    /\ r.pc = "L564"
    /\ SetCard(r.card, [pcard(t) EXCEPT !.irq_received = 0])
    /\ SetRd(t, [r EXCEPT !.pc = "D494"])
    /\ UNCHANGED <<lock, hwVars, isr, outcomes, mmapVars, lifeVars>>

(* th260_dma_start, lines 494-507: reset pulse, first read of dmacount *)
DmaD494(t) ==
    LET r == rd[t]
        c == pcard(t)
        p == RegDev(c)
    IN  /\ r.pc = "D494"
        /\ hw' = [hw EXCEPT ![p] = IoWriteAll(hw[p], ResetPulse)]
        /\ iolog' = ResetPulse
        /\ SetRd(t, [r EXCEPT !.pc = "D512", !.s = DmaStartSearch(c),
                              !.dma = "none", !.fired = TRUE,
                              !.open = TRUE])
        /\ UNCHANGED <<cardVars, isr, outcomes, mmapVars, lifeVars>>

(* faulty variant: size and count are programmed before the rejections *)
DmaD512_ProgramsBeforeCheck(t) ==
    LET r == rd[t]
        c == pcard(t)
        p == RegDev(c)
        ws == DmaProgramWrites(c, r.s)
        early == SubSeq(ws, 1, 3)
    IN  /\ r.pc = "D512"
        /\ IF DmaAccepts(c, r.s)
           THEN /\ hw' = [hw EXCEPT ![p] = IoWriteAll(hw[p], ws)]
                /\ iolog' = iolog \o ws
                /\ SetRd(t, [r EXCEPT !.pc = "L568", !.dma = "started"])
           ELSE /\ hw' = [hw EXCEPT ![p] = IoWriteAll(hw[p], early)]
                /\ iolog' = iolog \o early
                /\ SetRd(t, [r EXCEPT !.pc = "L568", !.dma = "rejected"])
        /\ UNCHANGED <<cardVars, isr, outcomes, mmapVars, lifeVars>>

(* th260_dma_start, lines 512-529: the rejections, second read of dmacount, *)
(* the programming writes                                                    *)
DmaD512(t) ==
    LET r == rd[t]
        c == pcard(t)
        p == RegDev(c)
        ws == DmaProgramWrites(c, r.s)
    IN  /\ r.pc = "D512"
        /\ IF DmaAccepts(c, r.s)
           THEN /\ hw' = [hw EXCEPT ![p] = IoWriteAll(hw[p], ws)]
                /\ iolog' = iolog \o ws
                /\ SetRd(t, [r EXCEPT !.pc = "L568", !.dma = "started"])
           ELSE /\ UNCHANGED hwVars
                /\ SetRd(t, [r EXCEPT !.pc = "L568", !.dma = "rejected"])
        /\ UNCHANGED <<cardVars, isr, outcomes, mmapVars, lifeVars>>

(* faulty variant: the lock is kept over the wait of line 570 *)
ReadL568_KeepsLock(t) ==
    LET r == rd[t] IN
    /\ r.pc = "L568"
    /\ SetRd(t, [r EXCEPT !.pc = "L570"])
    /\ UNCHANGED <<cardVars, hwVars, isr, outcomes, mmapVars, lifeVars>>

(* line 568: spin_unlock_irqrestore *)
ReadL568(t) ==
    LET r == rd[t] IN
    /\ r.pc = "L568"
    /\ lock' = [lock EXCEPT ![r.card] = Unlocked]
    /\ SetRd(t, [r EXCEPT !.pc = "L570"])
    /\ UNCHANGED <<th260_cdev, hwVars, isr, outcomes, mmapVars, lifeVars>>

(* line 570: wait_event_interruptible_timeout returns > 0 once the          *)
(* condition irq_received != 0 holds                                         *)
ReadL570Woken(t) ==
    LET r == rd[t] IN
    /\ r.pc = "L570"
    /\ pcard(t).irq_received # 0
    /\ SetRd(t, [r EXCEPT !.pc = "L578", !.rc = 1])
    /\ UNCHANGED <<cardVars, hwVars, isr, outcomes, mmapVars, lifeVars>>

(* lines 570-575: it returns 0 when the timeout elapses with the condition  *)
(* still false; the call returns -EINTR                                      *)
ReadL570Timeout(t) ==
    LET r == rd[t] IN
    /\ r.pc = "L570"
    /\ pcard(t).irq_received = 0
    /\ Return(t, [r EXCEPT !.rc = 0], -EINTR, "timeout")
    /\ UNCHANGED <<cardVars, hwVars, isr, mmapVars, lifeVars>>

(* line 570: it returns -ERESTARTSYS when a signal is pending, the          *)
(* condition false and time left                                             *)
ReadL570Signal(t) ==
    LET r == rd[t] IN
    /\ r.pc = "L570"
    /\ pcard(t).irq_received = 0
    /\ r.sig
    /\ SetRd(t, [r EXCEPT !.pc = "L578", !.rc = -ERESTARTSYS])
    /\ UNCHANGED <<cardVars, hwVars, isr, outcomes, mmapVars, lifeVars>>

(* line 578: if (pcard->bytes_done) *)
ReadL578(t) ==
    LET r == rd[t] IN
    /\ r.pc = "L578"
    /\ SetRd(t, [r EXCEPT !.pc = IF pcard(t).bytes_done # 0 THEN "L579"
                                 ELSE "L585"])
    /\ UNCHANGED <<cardVars, hwVars, isr, outcomes, mmapVars, lifeVars>>

(* lines 579-583: copy_to_user(buffer, dmabuf, pcard->bytes_done) *)
ReadL579(t, fault) ==
    LET r == rd[t]
        n == pcard(t).bytes_done
    IN  /\ r.pc = "L579"
        /\ IF fault
           THEN Return(t, r, -EFAULT, "copyfault")
           ELSE /\ SetRd(t, [r EXCEPT !.pc = "L585", !.copied = r.copied + n])
                /\ outcomes' = outcomes
        /\ UNCHANGED <<cardVars, hwVars, isr, mmapVars, lifeVars>>

(* lines 585-589: signal_pending(current), rc = total + pcard->bytes_done *)
ReadL585(t) ==
    LET r == rd[t]
        v == r.total + pcard(t).bytes_done
    IN  /\ r.pc = "L585"
        /\ IF r.sig
           THEN IF v # 0 THEN Return(t, [r EXCEPT !.rc = v], v, "signal")
                ELSE Return(t, [r EXCEPT !.rc = v], -EINTR, "signal0")
           ELSE /\ SetRd(t, [r EXCEPT !.pc = "L591"])
                /\ outcomes' = outcomes
        /\ UNCHANGED <<cardVars, hwVars, isr, mmapVars, lifeVars>>

(* line 591: if (pcard->irq_received) *)
ReadL591(t) ==
    LET r == rd[t] IN
    /\ r.pc = "L591"
    /\ SetRd(t, [r EXCEPT !.pc = IF pcard(t).irq_received # 0 THEN "L595"
                                 ELSE "L560",
                          !.open = r.open /\ pcard(t).irq_received = 0])
    /\ UNCHANGED <<cardVars, hwVars, isr, outcomes, mmapVars, lifeVars>>

(* line 595: total_bytes_read += pcard->bytes_done *)
ReadL595(t) ==
    LET r == rd[t] IN
    /\ r.pc = "L595"
    /\ SetRd(t, [r EXCEPT !.pc = "L596",
                          !.total = r.total + pcard(t).bytes_done])
    /\ UNCHANGED <<cardVars, hwVars, isr, outcomes, mmapVars, lifeVars>>

(* line 596: buffer += pcard->bytes_done *)
ReadL596(t) ==
    LET r == rd[t] IN
    /\ r.pc = "L596"
    /\ SetRd(t, [r EXCEPT !.pc = "L597",
                          !.buffer = r.buffer + pcard(t).bytes_done])
    /\ UNCHANGED <<cardVars, hwVars, isr, outcomes, mmapVars, lifeVars>>

(* lines 597-598: count -= pcard->bytes_done; break *)
ReadL597(t) ==
    LET r == rd[t] IN
    /\ r.pc = "L597"
    /\ SetRd(t, [r EXCEPT !.pc = "L609",
                          !.count = r.count - pcard(t).bytes_done])
    /\ UNCHANGED <<cardVars, hwVars, isr, outcomes, mmapVars, lifeVars>>

(* lines 609-611: while (count > 0); return total_bytes_read *)
ReadL609(t) ==
    LET r == rd[t] IN
    /\ r.pc = "L609"
    /\ IF USizePositive(r.count)
       THEN /\ SetRd(t, [r EXCEPT !.pc = "L557"])
            /\ outcomes' = outcomes
       ELSE Return(t, r, r.total, "done")
    /\ UNCHANGED <<cardVars, hwVars, isr, mmapVars, lifeVars>>

(* a signal is sent to a thread that is inside the read call *)
SignalArrives(t) ==
    LET r == rd[t] IN
    /\ r.pc \notin {"idle", "ret"}
    /\ ~r.sig
    /\ SetRd(t, [r EXCEPT !.sig = TRUE])
    /\ UNCHANGED <<cardVars, hwVars, isr, outcomes, mmapVars, lifeVars>>

---------------------------------------------------------------------------
(* The hardware finishes the programmed burst: the completion-status bit   *)
(* goes up and the interrupt is raised.                                     *)

HwComplete(p) ==
    /\ hw[p].en
    /\ hw' = [hw EXCEPT ![p] = [hw[p] EXCEPT !.en = FALSE, !.done = TRUE]]
    /\ UNCHANGED <<cardVars, iolog, readVars, mmapVars, lifeVars>>

---------------------------------------------------------------------------
(* th260_interrupt.  The line is shared (IRQF_SHARED), so the handler may  *)
(* be entered with the status bit clear.                                    *)

IdleIsr == [pc |-> "idle", dcsr |-> 0, tmp |-> 0, handled |-> 0, loops |-> 0]

SetIsr(m, i) == isr' = [isr EXCEPT ![m] = i]

(* lines 788-798: one pass of the acknowledge loop *)
IsrAckWrites(dcsr) ==
    << <<DCSR_OFFSET, dcsr + (IF (dcsr \div DCSR_INT_DISABLE) % 2 = 1 THEN 0
                             ELSE DCSR_INT_DISABLE)>> >> \o ResetPulse

(* faulty variant: the handler does not test the status bit on entry *)
IsrEnter_NoStatusTest(m) ==
    LET c == th260_cdev[m]
        p == RegDev(c)
        dcsr == IoRead32Dcsr(hw[p])
    IN  /\ c.pci_dev # NULL
        /\ isr[m].pc = "idle"
        /\ lock[m] = Unlocked
        /\ SetIsr(m, [IdleIsr EXCEPT !.pc = "L805", !.dcsr = dcsr,
                                     !.handled = 1])
        /\ lock' = [lock EXCEPT ![m] = IsrOwner]
        /\ iolog' = <<>>
        /\ UNCHANGED <<th260_cdev, hw, rd, outcomes, mmapVars, lifeVars>>

(* lines 777-786: spin_lock, read DCSR, not ours: unlock, IRQ_NONE *)
IsrEnter(m) ==
    LET c == th260_cdev[m]
        p == RegDev(c)
        dcsr == IoRead32Dcsr(hw[p])
    IN  /\ c.pci_dev # NULL
        /\ isr[m].pc = "idle"
        /\ lock[m] = Unlocked
        /\ IF (dcsr \div BUSMASTERED_READ_DONE) % 2 = 0
           THEN /\ SetIsr(m, [IdleIsr EXCEPT !.dcsr = dcsr])
                /\ UNCHANGED <<lock, iolog>>
           ELSE /\ SetIsr(m, [IdleIsr EXCEPT !.pc = "L788", !.dcsr = dcsr])
                /\ lock' = [lock EXCEPT ![m] = IsrOwner]
                /\ iolog' = <<>>
        /\ UNCHANGED <<th260_cdev, hw, rd, outcomes, mmapVars, lifeVars>>

(* line 788: while (dcsr & BUSMASTERED_READ_DONE), the test *)
IsrL788(m) ==
    LET i == isr[m] IN
    /\ i.pc = "L788"
    /\ SetIsr(m, [i EXCEPT
                    !.pc = IF (i.dcsr \div BUSMASTERED_READ_DONE) % 2 = 1
                           THEN "L790" ELSE "L805",
                    !.handled = IF (i.dcsr \div BUSMASTERED_READ_DONE) % 2 = 1
                                THEN i.handled ELSE 1])
    /\ UNCHANGED <<cardVars, hwVars, rd, outcomes, mmapVars, lifeVars>>

(* lines 790-797: one pass of the loop body: disable the interrupt, pulse   *)
(* the reset, read DCSR again.  Passes beyond MaxIsrLoops are neither       *)
(* counted nor logged.                                                      *)
IsrL790(m) ==
    LET i == isr[m]
        p == RegDev(th260_cdev[m])
        ws == IsrAckWrites(i.dcsr)
        h == IoWriteAll(hw[p], ws)
    IN  /\ i.pc = "L790"
        /\ hw' = [hw EXCEPT ![p] = h]
        /\ iolog' = IF i.loops < MaxIsrLoops THEN iolog \o ws ELSE iolog
        /\ SetIsr(m, [i EXCEPT !.pc = "L788",
                               !.dcsr = IoRead32Dcsr(h),
                               !.loops = IF i.loops < MaxIsrLoops
                                         THEN i.loops + 1
                                         ELSE i.loops])
        /\ UNCHANGED <<cardVars, rd, outcomes, mmapVars, lifeVars>>

(* line 805: pcard->bytes_done += pcard->dmacount, the loads *)
IsrL805(m) ==
    LET i == isr[m]
        c == th260_cdev[m]
    IN  /\ i.pc = "L805"
        /\ SetIsr(m, [i EXCEPT !.pc = "L805s",
                               !.tmp = c.bytes_done + c.dmacount])
        /\ UNCHANGED <<cardVars, hwVars, rd, outcomes, mmapVars, lifeVars>>

(* line 805: the store *)
IsrL805s(m) ==
    LET i == isr[m] IN
    /\ i.pc = "L805s"
    /\ SetCard(m, [th260_cdev[m] EXCEPT !.bytes_done = i.tmp])
    /\ SetIsr(m, [i EXCEPT !.pc = "L806"])
    /\ UNCHANGED <<lock, hwVars, rd, outcomes, mmapVars, lifeVars>>

(* line 806: pcard->dmacount = 0 *)
IsrL806(m) ==
    LET i == isr[m] IN
    /\ i.pc = "L806"
    /\ SetCard(m, [th260_cdev[m] EXCEPT !.dmacount = 0])
    /\ SetIsr(m, [i EXCEPT !.pc = "L808"])
    /\ UNCHANGED <<lock, hwVars, rd, outcomes, mmapVars, lifeVars>>

(* lines 808-814: irq_received = 1, wake_up_interruptible, spin_unlock *)
IsrL808(m) ==
    LET i == isr[m] IN
    /\ i.pc = "L808"
    /\ SetCard(m, [th260_cdev[m] EXCEPT !.irq_received = 1])
    /\ lock' = [lock EXCEPT ![m] = Unlocked]
    /\ SetIsr(m, [i EXCEPT !.pc = "idle"])
    /\ UNCHANGED <<hwVars, rd, outcomes, mmapVars, lifeVars>>

---------------------------------------------------------------------------
(* th260_mmap and th260_vma_close.  vmas counts the mappings of the        *)
(* register window the thread owns; gateMapped remembers that a mapping      *)
(* was active when the call reached the busy test.                          *)

IdleMapper(m) ==
    [pc |-> "idle", card |-> m, len |-> 0, fail |-> FALSE, ret |-> 0,
     vmas |-> 0, gateMapped |-> FALSE]

mcard(t) == th260_cdev[mm[t].card]

SetMm(t, r) == mm' = [mm EXCEPT ![t] = r]

TotalVmas == LET RECURSIVE Sum(_)
                 Sum(S) == IF S = {} THEN 0
                           ELSE LET x == CHOOSE y \in S : TRUE
                                IN  mm[x].vmas + Sum(S \ {x})
             IN  Sum(Mappers)

InMmap(t) == mm[t].pc \notin {"idle", "ret"}

Event(ev, t, len, fail, free, rc) ==
    [ev |-> ev, t |-> t, len |-> len, fail |-> fail, free |-> free, rc |-> rc]

OthersInMmap(t) == \E u \in Mappers \ {t} : InMmap(u)

(* mlog records a run of calls made one after the other: it starts at a    *)
(* call made on a free card, and is dropped when a second thread acts while *)
(* a call is in progress or when it is full.                                *)
Record(t, e, starts) ==
    IF OthersInMmap(t) THEN <<>>
    ELSE IF mlog = <<>> \/ Len(mlog) >= MaxLog
         THEN (IF starts THEN <<e>> ELSE <<>>)
         ELSE Append(mlog, e)

MmapReturn(t, r, value) ==
    /\ SetMm(t, [r EXCEPT !.pc = "ret", !.ret = value, !.len = 0,
                          !.fail = FALSE])
    /\ mlog' = Record(t, Event("ret", t, r.len, r.fail, FALSE, value), FALSE)

(* lines 690-698: entry; len is vm_end - vm_start, fail whether             *)
(* remap_pfn_range is going to fail                                          *)
MmapCall(t, len, fail) ==
    LET r == mm[t]
        free == /\ mcard(t).busy = 0
                /\ TotalVmas = 0
                /\ \A u \in Mappers : ~InMmap(u)
    IN  /\ r.pc \in {"idle", "ret"}
        /\ SetMm(t, [r EXCEPT !.pc = "M701", !.len = len, !.fail = fail,
                              !.ret = 0, !.gateMapped = FALSE])
        /\ mlog' = Record(t, Event("call", t, len, fail, free, 0), free)
        /\ UNCHANGED <<cardVars, hwVars, readVars, lifeVars>>

(* line 701: spin_lock_irqsave *)
MmapM701(t) ==
    LET r == mm[t] IN
    /\ r.pc = "M701"
    /\ lock[r.card] = Unlocked
    /\ lock' = [lock EXCEPT ![r.card] = MmapOwner(t)]
    /\ SetMm(t, [r EXCEPT !.pc = "M705"])
    /\ UNCHANGED <<th260_cdev, hwVars, readVars, mlog, lifeVars>>

(* faulty variant: the busy test of line 705 is missing *)
MmapM705_NoBusyTest(t) ==
    LET r == mm[t] IN
    /\ r.pc = "M705"
    /\ SetMm(t, [r EXCEPT !.pc = "M710", !.gateMapped = (TotalVmas > 0)])
    /\ UNCHANGED <<cardVars, hwVars, readVars, mlog, lifeVars>>

(* lines 705-709: if (pcard->busy) { unlock; return -EBUSY; } *)
MmapM705(t) ==
    LET r == mm[t]
        r1 == [r EXCEPT !.gateMapped = (TotalVmas > 0)]
    IN  /\ r.pc = "M705"
        /\ IF mcard(t).busy # 0
           THEN /\ lock' = [lock EXCEPT ![r.card] = Unlocked]
                /\ MmapReturn(t, r1, -EBUSY)
           ELSE /\ SetMm(t, [r1 EXCEPT !.pc = "M710"])
                /\ UNCHANGED <<lock, mlog>>
        /\ UNCHANGED <<th260_cdev, hwVars, readVars, lifeVars>>

(* line 710: pcard->busy = 1 *)
MmapM710(t) ==
    LET r == mm[t] IN
    /\ r.pc = "M710"
    /\ SetCard(r.card, [mcard(t) EXCEPT !.busy = 1])
    /\ SetMm(t, [r EXCEPT !.pc = "M711"])
    /\ UNCHANGED <<lock, hwVars, readVars, mlog, lifeVars>>

(* line 711: spin_unlock_irqrestore *)
MmapM711(t) ==
    LET r == mm[t] IN
    /\ r.pc = "M711"
    /\ lock' = [lock EXCEPT ![r.card] = Unlocked]
    /\ SetMm(t, [r EXCEPT !.pc = "M714"])
    /\ UNCHANGED <<th260_cdev, hwVars, readVars, mlog, lifeVars>>

(* faulty variant: the failed dimension check leaves busy set *)
MmapM714_LeavesBusy(t) ==
    LET r == mm[t] IN
    /\ r.pc = "M714"
    /\ IF r.len > PAGE_ALIGN(BAR_0_LEN)
       THEN MmapReturn(t, r, -EINVAL)
       ELSE /\ SetMm(t, [r EXCEPT !.pc = "M729"])
            /\ UNCHANGED mlog
    /\ UNCHANGED <<cardVars, hwVars, readVars, lifeVars>>

(* lines 714-721: the dimension check; on failure busy = 0, -EINVAL *)
MmapM714(t) ==
    LET r == mm[t] IN
    /\ r.pc = "M714"
    /\ IF r.len > PAGE_ALIGN(BAR_0_LEN)
       THEN /\ SetCard(r.card, [mcard(t) EXCEPT !.busy = 0])
            /\ MmapReturn(t, r, -EINVAL)
       ELSE /\ SetMm(t, [r EXCEPT !.pc = "M729"])
            /\ UNCHANGED <<th260_cdev, mlog>>
    /\ UNCHANGED <<lock, hwVars, readVars, lifeVars>>

(* lines 723-729: bar0offset = pci_resource_start(...) & ~PAGE_MASK *)
MmapM729(t) ==
    LET r == mm[t]
        c == mcard(t)
    IN  /\ r.pc = "M729"
        /\ SetCard(r.card, [c EXCEPT !.bar0offset =
                               pci_resource_start(c.pci_dev) % PAGE_SIZE])
        /\ SetMm(t, [r EXCEPT !.pc = "M736"])
        /\ UNCHANGED <<lock, hwVars, readVars, mlog, lifeVars>>

(* faulty variant: the failure path of remap_pfn_range leaves busy set *)
MmapM736_LeavesBusy(t) ==
    LET r == mm[t] IN
    /\ r.pc = "M736"
    /\ IF r.fail
       THEN MmapReturn(t, r, -EAGAIN)
       ELSE MmapReturn(t, [r EXCEPT !.vmas = r.vmas + 1], 0)
    /\ UNCHANGED <<cardVars, hwVars, readVars, lifeVars>>

(* lines 735-756: remap_pfn_range; on failure busy = 0, -EAGAIN; on         *)
(* success the mapping exists and vm_ops is installed                        *)
MmapM736(t) ==
    LET r == mm[t] IN
    /\ r.pc = "M736"
    /\ IF r.fail
       THEN /\ SetCard(r.card, [mcard(t) EXCEPT !.busy = 0])
            /\ MmapReturn(t, r, -EAGAIN)
       ELSE /\ MmapReturn(t, [r EXCEPT !.vmas = r.vmas + 1], 0)
            /\ UNCHANGED th260_cdev
    /\ UNCHANGED <<lock, hwVars, readVars, lifeVars>>

(* faulty variant: the release hook does not clear busy *)
th260_vma_close_KeepsBusy(t) ==
    LET r == mm[t] IN
    /\ r.vmas > 0
    /\ ~InMmap(t)
    /\ SetMm(t, [r EXCEPT !.vmas = r.vmas - 1])
    /\ mlog' = Record(t, Event("close", t, 0, FALSE, FALSE, 0), FALSE)
    /\ UNCHANGED <<cardVars, hwVars, readVars, lifeVars>>

(* th260_vma_close: a mapping of the thread is torn down *)
th260_vma_close(t) ==
    LET r == mm[t] IN
    /\ r.vmas > 0
    /\ ~InMmap(t)
    /\ SetCard(r.card, [mcard(t) EXCEPT !.busy = 0])
    /\ SetMm(t, [r EXCEPT !.vmas = r.vmas - 1])
    /\ mlog' = Record(t, Event("close", t, 0, FALSE, FALSE, 0), FALSE)
    /\ UNCHANGED <<lock, hwVars, readVars, lifeVars>>

---------------------------------------------------------------------------
(* The PCI lifecycle: th260_probe, th260_remove and pci_exit_module, from  *)
(* the state pci_init_module leaves.  The PCI core serialises these calls, so each is one    *)
(* step; it is computed on a record S of the state it touches               *)
(* (cards: the device table, kern, hw, pci) and of the kernel calls it      *)
(* makes, in order (eff).  Kernel objects are named by the number of the    *)
(* probe call that created them.                                            *)

IdlePci ==
    [drvdata |-> <<>>, enable_cnt |-> 0, region |-> FALSE, bound |-> FALSE]

NoKern ==
    [cdevs |-> {}, iomaps |-> {}, pages |-> {}, irqs |-> {}, nodes |-> {},
     faults |-> {}, nprobe |-> 0, loaded |-> TRUE,
     avail |-> {}]

NoCall ==
    [op |-> "none", pdev |-> 0, rc |-> 0, minor |-> 0, id |-> 0,
     own |-> FALSE, again |-> FALSE, fail |-> "none", eff |-> <<>>]

Cur == [cards |-> th260_cdev, kern |-> kern, hw |-> hw, pci |-> pci,
        eff |-> <<>>]

Commit(S, call) ==
    /\ th260_cdev' = S.cards
    /\ kern' = S.kern
    /\ hw' = S.hw
    /\ pci' = S.pci
    /\ last' = [call EXCEPT !.eff = S.eff]
    /\ UNCHANGED <<lock, iolog, readVars, mmapVars>>

Opt(cond, e) == IF cond THEN <<e>> ELSE <<>>

OptSet(cond, e) == IF cond THEN {e} ELSE {}

Mark(S, e) == [S EXCEPT !.eff = @ \o <<e>>]

(* faulty variant: a full table hands out its last slot again *)
th260_cdev_add_ReusesLast(cards) ==
    IF \E i \in Minors : cards[i].pci_dev = NULL
    THEN CHOOSE i \in Minors :
            /\ cards[i].pci_dev = NULL
            /\ \A j \in Minors : j < i => cards[j].pci_dev # NULL
    ELSE MAX_DEVICES - 1

(* faulty variant: the last free slot is taken instead of the first *)
th260_cdev_add_LastFree(cards) ==
    IF \E i \in Minors : cards[i].pci_dev = NULL
    THEN CHOOSE i \in Minors :
            /\ cards[i].pci_dev = NULL
            /\ \A j \in Minors : j > i => cards[j].pci_dev # NULL
    ELSE -1

(* lines 447-460: the first slot whose pci_dev is NULL, or -1 *)
th260_cdev_add(cards) ==
    IF \E i \in Minors : cards[i].pci_dev = NULL
    THEN CHOOSE i \in Minors :
            /\ cards[i].pci_dev = NULL
            /\ \A j \in Minors : j < i => cards[j].pci_dev # NULL
    ELSE -1

(* lines 462-471: every slot that holds pdev is cleared *)
th260_cdev_del(cards, p) ==
    [i \in Minors |-> IF cards[i].pci_dev = p
                      THEN [cards[i] EXCEPT !.pci_dev = NULL]
                      ELSE cards[i]]

(* faulty variant: a four-bit field, as in the PCIe capability layout *)
MaxTlpOf_FourBits(dltrsstat) == 32 * Pow2((dltrsstat \div 256) % 16)

(* line 913: maxtlpsize = 32 << ((dltrsstat >> 8) & 7) *)
MaxTlpOf(dltrsstat) == 32 * Pow2((dltrsstat \div 256) % 8)

(* The steps of th260_probe at which it can fail, in program order.  slot:  *)
(* th260_cdev_add; maxtlp: the range check of line 916; dma: no pages of    *)
(* any order; none: success.                                                *)
ProbeStages ==
    <<"slot", "cdev_add", "enable", "region", "notmem", "ioremap", "maxtlp",
      "dma", "mask", "irq", "none">>

StageRank(f) == CHOOSE i \in 1 .. Len(ProbeStages) : ProbeStages[i] = f

Passed(f, stage) == StageRank(f) > StageRank(stage)

(* faulty variant: the test of pcard->dmabuf (line 944) is missing, the    *)
(* probe goes on without a buffer                                           *)
ProbeFail_NoBufferTest(S, p, fail, got) ==
    IF th260_cdev_add(S.cards) < 0 THEN "slot"
    ELSE IF fail \in {"cdev_add", "enable"} THEN fail
    ELSE IF fail = "region" \/ S.pci[p].region THEN "region"
    ELSE IF fail \in {"notmem", "ioremap"} THEN fail
    ELSE IF MaxTlpOf(S.hw[p].dltrsstat) < 32
            \/ MaxTlpOf(S.hw[p].dltrsstat) > 4096 THEN "maxtlp"
    ELSE fail

(* the step at which this probe fails: fail is what the kernel refuses,    *)
(* got the order at which __get_free_pages first succeeds (-1: never)       *)
ProbeFail(S, p, fail, got) ==
    IF th260_cdev_add(S.cards) < 0 THEN "slot"
    ELSE IF fail \in {"cdev_add", "enable"} THEN fail
    ELSE IF fail = "region" \/ S.pci[p].region THEN "region"
    ELSE IF fail \in {"notmem", "ioremap"} THEN fail
    ELSE IF MaxTlpOf(S.hw[p].dltrsstat) < 32
            \/ MaxTlpOf(S.hw[p].dltrsstat) > 4096 THEN "maxtlp"
    ELSE IF got < 0 THEN "dma"
    ELSE fail

(* faulty variant: the loop stops above order 0, one page is never tried *)
RECURSIVE AllocLoop_SkipsOnePage(_, _)
AllocLoop_SkipsOnePage(order, avail) ==
    IF order <= 0 THEN -1
    ELSE IF order \in avail THEN order
    ELSE AllocLoop_SkipsOnePage(order - 1, avail)

(* lines 928-935: for (order = ...; order >= 0; order--), left by break at *)
(* the first order at which __get_free_pages returns pages.  avail: the     *)
(* orders at which the allocator has pages; -1: the loop ran out.           *)
RECURSIVE AllocLoop(_, _)
AllocLoop(order, avail) ==
    IF ~(order >= 0) THEN -1
    ELSE IF order \in avail THEN order
    ELSE AllocLoop(order - 1, avail)

(* lines 930-938: the orders tried, from get_order(512 kB) downwards *)
AllocAttempts(top, lowest) ==
    [i \in 1 .. (top - lowest + 1) |-> <<"__get_free_pages", top - i + 1>>]

(* th260_probe, lines 836-979 *)
th260_probe(S, p, fail, got) ==
    LET f == ProbeFail(S, p, fail, got)
        k == S.kern.nprobe + 1
        minor == th260_cdev_add(S.cards)
        maxtlp == MaxTlpOf(S.hw[p].dltrsstat)
        order == IF got < 0 THEN 0 ELSE got
        c0 == S.cards[minor]
        c1 == [c0 EXCEPT !.pci_dev = p]
        c2 == IF Passed(f, "cdev_add") THEN [c1 EXCEPT !.cdev = k] ELSE c1
        c3 == IF Passed(f, "notmem")
              THEN [c2 EXCEPT !.bar0base = IF f = "ioremap" THEN NoMap
                                           ELSE <<k, p>>]
              ELSE c2
        c4 == IF Passed(f, "ioremap")
              THEN [c3 EXCEPT !.serial = p, !.maxtlpsize = maxtlp]
              ELSE c3
        c5 == IF Passed(f, "maxtlp")
              THEN [c4 EXCEPT !.dmabuf_order = order,
                              !.dmabuf = IF got < 0 THEN NULL ELSE k]
              ELSE c4
        unmaps == f \in {"mask", "irq"}
        dels == Passed(f, "cdev_add") /\ f # "none"
    IN
    IF f = "slot"
    THEN [S EXCEPT
            !.kern.nprobe = k,
            !.pci[p].drvdata = <<>>,
            !.pci[p].enable_cnt = @ - 1,
            !.pci[p].bound = FALSE,
            !.eff = @ \o << <<"pci_set_drvdata", NULL>>,
                            <<"pci_disable_device", p>> >>]
    ELSE [cards |-> [S.cards EXCEPT ![minor] = c5],
          kern |-> [S.kern EXCEPT
                      !.nprobe = k,
                      !.cdevs = @ \cup OptSet(f = "none", k),
                      !.iomaps = @ \cup OptSet(Passed(f, "ioremap")
                                               /\ ~unmaps, k),
                      !.pages = @ \cup OptSet(Passed(f, "dma"), <<k, order>>),
                      !.irqs = @ \cup OptSet(f = "none", <<p, minor>>),
                      !.nodes = @ \cup OptSet(f = "none", minor)],
          hw |-> IF Passed(f, "maxtlp")
                 THEN [S.hw EXCEPT ![p] = IoWriteAll(@, th260_reset_writes)]
                 ELSE S.hw,
          pci |-> [S.pci EXCEPT
                      ![p].drvdata = IF f = "none" THEN <<minor>> ELSE <<>>,
                      ![p].enable_cnt = @ + (IF Passed(f, "enable") THEN 1
                                             ELSE 0)
                                          - (IF f = "none" THEN 0 ELSE 1),
                      ![p].region = @ \/ Passed(f, "region"),
                      ![p].bound = (f = "none")],
          eff |-> S.eff
                  \o << <<"th260_cdev_add", minor>>, <<"cdev_alloc", k>> >>
                  \o Opt(Passed(f, "cdev_add"), <<"cdev_add", k>>)
                  \o Opt(Passed(f, "cdev_add"), <<"pci_set_drvdata", minor + 1>>)
                  \o Opt(Passed(f, "enable"), <<"pci_enable_device", p>>)
                  \o Opt(Passed(f, "region"), <<"pci_request_region", p>>)
                  \o Opt(Passed(f, "ioremap"), <<"ioremap", k>>)
                  \o Opt(Passed(f, "ioremap"), <<"ioread32", MB_SERIAL_OFFSET>>)
                  \o Opt(Passed(f, "ioremap"),
                         <<"ioread32", MB_SERIAL_OFFSET + 4>>)
                  \o Opt(Passed(f, "ioremap"), <<"ioread32", TRANS_SIZE_OFFSET>>)
                  \o Opt(Passed(f, "maxtlp"), <<"th260_reset", minor>>)
                  \o (IF Passed(f, "maxtlp")
                      THEN AllocAttempts(get_order(512 * 1024), order)
                      ELSE <<>>)
                  \o Opt(Passed(f, "dma"), <<"pci_set_master", p>>)
                  \o Opt(Passed(f, "mask"), <<"dma_set_mask", p>>)
                  \o Opt(Passed(f, "irq"), <<"request_irq", minor>>)
                  \o Opt(f = "none", <<"device_create", minor>>)
                  \o Opt(unmaps, <<"iounmap", k>>)
                  \o Opt(dels, <<"cdev_del", k>>)
                  \o (IF f = "none" THEN <<>>
                      ELSE << <<"pci_set_drvdata", NULL>>,
                              <<"pci_disable_device", p>> >>)]

(* th260_probe called by the PCI core for a device it has not bound *)
Probe(p, fail, got) ==
    /\ kern.loaded
    /\ ~pci[p].bound
    /\ kern.nprobe < MaxProbes
    /\ Commit(th260_probe(Cur, p, fail, got),
              [NoCall EXCEPT
                 !.op = "probe", !.pdev = p,
                 !.rc = IF ProbeFail(Cur, p, fail, got) = "none" THEN 0
                        ELSE -ENODEV,
                 !.minor = th260_cdev_add(th260_cdev),
                 !.id = kern.nprobe + 1,
                 !.fail = ProbeFail(Cur, p, fail, got)])

(* faulty variant: the register window is unmapped before the interrupt    *)
(* handler is released                                                      *)
TeardownCalls_UnmapsFirst(c, p, m) ==
    Opt(c.cdev # NULL, <<"cdev_del", c.cdev>>)
    \o << <<"device_destroy", c.minor>>,
          <<"th260_reset", m>>,
          <<"iounmap", c.bar0base[1]>>,
          <<"free_irq", p>>,
          <<"pci_release_region", p>> >>
    \o Opt(c.dmabuf # NULL, <<"free_pages", c.dmabuf>>)
    \o << <<"th260_cdev_del", p>> >>

(* th260_remove, lines 1001-1019: the calls of the teardown in program order *)
TeardownCalls(c, p, m) ==
    Opt(c.cdev # NULL, <<"cdev_del", c.cdev>>)
    \o << <<"device_destroy", c.minor>>,
          <<"th260_reset", m>>,
          <<"free_irq", p>>,
          <<"iounmap", c.bar0base[1]>>,
          <<"pci_release_region", p>> >>
    \o Opt(c.dmabuf # NULL, <<"free_pages", c.dmabuf>>)
    \o << <<"th260_cdev_del", p>> >>

(* th260_remove, lines 997-1019: the teardown of the card in slot m on      *)
(* behalf of pdev.  A call on an object the kernel no longer holds (a       *)
(* deleted cdev, an unmapped window, an unregistered handler, freed pages)  *)
(* is recorded in kern.faults.                                              *)
Teardown(S, p, m) ==
    LET c == S.cards[m]
        mapped == c.bar0base[1] \in S.kern.iomaps
    IN  [cards |-> th260_cdev_del(S.cards, p),
         kern |-> [S.kern EXCEPT
                    !.cdevs = IF c.cdev # NULL THEN @ \ {c.cdev} ELSE @,
                    !.nodes = @ \ {c.minor},
                    !.irqs = @ \ {<<p, m>>},
                    !.iomaps = @ \ {c.bar0base[1]},
                    !.pages = IF c.dmabuf # NULL
                              THEN @ \ {<<c.dmabuf, c.dmabuf_order>>}
                              ELSE @,
                    !.faults = @
                       \cup OptSet(c.cdev # NULL
                                   /\ c.cdev \notin S.kern.cdevs,
                                   <<"cdev_del", m>>)
                       \cup OptSet(~mapped, <<"th260_reset", m>>)
                       \cup OptSet(<<p, m>> \notin S.kern.irqs,
                                   <<"free_irq", m>>)
                       \cup OptSet(~mapped, <<"iounmap", m>>)
                       \cup OptSet(~S.pci[p].region,
                                   <<"pci_release_region", m>>)
                       \cup OptSet(c.dmabuf # NULL
                                   /\ <<c.dmabuf, c.dmabuf_order>>
                                         \notin S.kern.pages,
                                   <<"free_pages", m>>)],
         hw |-> IF mapped
                THEN [S.hw EXCEPT ![RegDev(c)] =
                          IoWriteAll(@, th260_reset_writes)]
                ELSE S.hw,
         pci |-> [S.pci EXCEPT ![p].region = FALSE],
         eff |-> S.eff \o TeardownCalls(c, p, m)]

(* faulty variant: the test of pcard->pci_dev (line 992) is missing *)
th260_remove_NoSlotTest(S, p) ==
    LET d == S.pci[p].drvdata IN
    IF d = <<>> THEN S ELSE Teardown(S, p, d[1])

(* th260_remove, lines 981-1020: the two early returns, then the teardown *)
th260_remove(S, p) ==
    LET d == S.pci[p].drvdata IN
    IF d = <<>> THEN S
    ELSE IF S.cards[d[1]].pci_dev = NULL THEN S
    ELSE Teardown(S, p, d[1])

(* the card of pdev is attached: its drvdata names a slot that holds it *)
Owns(p) ==
    /\ pci[p].drvdata # <<>>
    /\ th260_cdev[pci[p].drvdata[1]].pci_dev = p

(* th260_remove called for a device, by the PCI core or by the driver *)
Remove(p) ==
    /\ kern.loaded
    /\ LET S == th260_remove(Cur, p) IN
       Commit([S EXCEPT !.pci[p].bound = FALSE],
              [NoCall EXCEPT
                 !.op = "remove", !.pdev = p, !.own = Owns(p),
                 !.again = (last.op = "remove" /\ last.pdev = p
                            /\ last.own)])

(* lines 1092-1095: the loop over the slots *)
RECURSIVE ExitLoop(_, _)
ExitLoop(S, i) ==
    IF i >= MAX_DEVICES THEN S
    ELSE LET pdev == S.cards[i].pci_dev IN
         ExitLoop(IF pdev # NULL
                  THEN th260_remove(Mark(S, <<"th260_remove", pdev>>), pdev)
                  ELSE S,
                  i + 1)

(* pci_unregister_driver: the core calls remove for the devices it has bound *)
RECURSIVE Unbind(_, _)
Unbind(S, p) ==
    IF p \notin DOMAIN S.pci THEN S
    ELSE Unbind(IF S.pci[p].bound
                THEN th260_remove(Mark(S, <<"th260_remove", p>>), p)
                ELSE S,
                p + 1)

(* pci_exit_module, lines 1084-1106.  callback: whether the core calls the *)
(* remove callback from pci_unregister_driver (the comment at line 1088).   *)
pci_exit_module(S, callback) ==
    LET S1 == ExitLoop(S, 0)
        S2 == Mark(Mark(Mark(S1, <<"unregister_chrdev_region", 0>>),
                        <<"class_destroy", 0>>),
                   <<"pci_unregister_driver", 0>>)
        S3 == IF callback THEN Unbind(S2, 1) ELSE S2
    IN  [S3 EXCEPT !.kern.loaded = FALSE,
                   !.pci = [p \in DOMAIN S3.pci |->
                               [S3.pci[p] EXCEPT !.bound = FALSE]]]

ModuleExit(callback) ==
    /\ kern.loaded
    /\ Commit(pci_exit_module(Cur, callback), [NoCall EXCEPT !.op = "exit"])

---------------------------------------------------------------------------
(* th260_ioctl, lines 615-666 *)

DRVVERSION ==
    VER_MAJOR * Pow2(24) + VER_MINOR * Pow2(16) + REV_MAJOR * Pow2(8) + REV_MINOR

IoctlValued == {"IOCTL_GET_VERSION", "IOCTL_GET_SERIAL", "IOCTL_GET_BAROFFS"}

IoctlCmds == IoctlValued \cup {"other"}

(* the return value and the value stored at arg (<<>> when nothing is      *)
(* stored); access is the result of access_ok, copy whether copy_to_user    *)
(* stores every byte                                                        *)
th260_ioctl(c, cmd, access, copy) ==
    LET value == CASE cmd = "IOCTL_GET_VERSION" -> DRVVERSION
                   [] cmd = "IOCTL_GET_SERIAL" -> c.serial
                   [] cmd = "IOCTL_GET_BAROFFS" -> c.bar0offset
                   [] OTHER -> 0
    IN  IF cmd \notin IoctlValued THEN [rc |-> -EINVAL, out |-> <<>>]
        ELSE IF ~access THEN [rc |-> -EFAULT, out |-> <<>>]
        ELSE IF ~copy THEN [rc |-> -EACCES, out |-> <<>>]
        ELSE [rc |-> 0, out |-> <<value>>]

(* an ioctl on an open file of card m; the call and its result are kept in *)
(* last: eff[1] are the command and the two answers of the user memory,     *)
(* eff[2] the value stored                                                  *)
Ioctl(m, cmd, access, copy) ==
    LET res == th260_ioctl(th260_cdev[m], cmd, access, copy) IN
    /\ th260_cdev[m].pci_dev # NULL
    /\ last' = [NoCall EXCEPT
                  !.op = "ioctl", !.minor = m, !.rc = res.rc,
                  !.eff = << <<cmd, access, copy>> >>
                          \o (IF res.out = <<>> THEN <<>>
                              ELSE << <<"copy_to_user", res.out[1]>> >>)]
    /\ UNCHANGED <<cardVars, hwVars, readVars, mmapVars, pci, kern>>

---------------------------------------------------------------------------
(* A card as a successful th260_probe leaves it: slot m, device p, the     *)
(* resources of probe number k.                                             *)

MaxTlpSizes == {32 * Pow2(b) : b \in 0 .. 7}

DmaOrders == 0 .. get_order(512 * 1024)

AttachedCard(m, p, k, maxtlp, ord) ==
    [EmptyCard(m) EXCEPT !.pci_dev = p, !.cdev = k, !.bar0base = <<k, p>>,
                         !.serial = p, !.maxtlpsize = maxtlp, !.dmabuf = k,
                         !.dmabuf_order = ord]

AttachedPci(m, p) ==
    [q \in PciDevs |->
        IF q = p THEN [drvdata |-> <<m>>, enable_cnt |-> 1, region |-> TRUE,
                       bound |-> TRUE]
        ELSE IdlePci]

AttachedKern(m, p, k, ord) ==
    [NoKern EXCEPT !.cdevs = {k}, !.iomaps = {k}, !.pages = {<<k, ord>>},
                   !.irqs = {<<p, m>>}, !.nodes = {m}, !.nprobe = k]

---------------------------------------------------------------------------
(* Specification SpecDma: th260_dma_start on every dmacount and maxtlpsize *)
(* of the domain, called as th260_read calls it (lock held).                *)

DmaCounts ==
    (0 .. 4 * MaxSmallDwords)
    \cup {BUFFER_SIZE(o) - 4 * k : o \in DmaOrders, k \in 0 .. MaxTailDwords}

InitDma ==
    /\ \E maxtlp \in MaxTlpSizes, ord \in DmaOrders, n \in DmaCounts :
          /\ n <= BUFFER_SIZE(ord)
          /\ th260_cdev = [th260_cdev_init EXCEPT
                ![0] = [AttachedCard(0, 1, 1, maxtlp, ord) EXCEPT
                           !.dmacount = n]]
          /\ kern = AttachedKern(0, 1, 1, ord)
    /\ pci = AttachedPci(0, 1)
    /\ last = NoCall
    /\ lock = [m \in Minors |-> IF m = 0 THEN ReadOwner(1) ELSE Unlocked]
    /\ hw = [p \in PciDevs |-> [HwIdle EXCEPT !.bar0 = BAR_0_LEN * p]]
    /\ iolog = <<>>
    /\ rd = [t \in Readers |->
                [IdleReader(0) EXCEPT !.pc = "D494", !.calls = 1,
                                      !.chunks = 1,
                                      !.N = th260_cdev[0].dmacount,
                                      !.count = th260_cdev[0].dmacount]]
    /\ isr = [m \in Minors |-> IdleIsr]
    /\ outcomes = {}
    /\ mm = [t \in Mappers |-> IdleMapper(0)]
    /\ mlog = <<>>

NextDma == \E t \in Readers : DmaD494(t) \/ DmaD512(t)

SpecDma == InitDma /\ [][NextDma]_vars

---------------------------------------------------------------------------
(* Specification SpecRead: reader threads, the interrupt handler and the   *)
(* hardware on one attached card.                                           *)

ReadOrders == {0}

ReadTlpSizes == {32}

ReadCounts ==
    {0, 4, 6} \cup {BUFFER_SIZE(o) + d : o \in ReadOrders, d \in {0, 4}}

InitRead ==
    /\ \E maxtlp \in ReadTlpSizes, ord \in ReadOrders :
          /\ th260_cdev = [th260_cdev_init EXCEPT
                              ![0] = AttachedCard(0, 1, 1, maxtlp, ord)]
          /\ kern = AttachedKern(0, 1, 1, ord)
    /\ pci = AttachedPci(0, 1)
    /\ last = NoCall
    /\ lock = [m \in Minors |-> Unlocked]
    /\ hw = [p \in PciDevs |-> [HwIdle EXCEPT !.bar0 = BAR_0_LEN * p]]
    /\ iolog = <<>>
    /\ rd = [t \in Readers |-> IdleReader(0)]
    /\ isr = [m \in Minors |-> IdleIsr]
    /\ outcomes = {}
    /\ mm = [t \in Mappers |-> IdleMapper(0)]
    /\ mlog = <<>>

ReaderStep(t) ==
    \/ \E cnt \in ReadCounts, nonblock \in BOOLEAN, writable \in BOOLEAN :
          ReadCall(t, cnt, nonblock, writable)
    \/ ReadL557(t)
    \/ ReadL558(t)
    \/ ReadL560(t)
    \/ ReadL562(t)
    \/ ReadL564(t)
    \/ DmaD494(t)
    \/ DmaD512(t)
    \/ ReadL568(t)
    \/ ReadL570Woken(t)
    \/ ReadL570Timeout(t)
    \/ ReadL570Signal(t)
    \/ ReadL578(t)
    \/ \E fault \in BOOLEAN : ReadL579(t, fault)
    \/ ReadL585(t)
    \/ ReadL591(t)
    \/ ReadL595(t)
    \/ ReadL596(t)
    \/ ReadL597(t)
    \/ ReadL609(t)
    \/ SignalArrives(t)

IsrStep(m) ==
    \/ IsrEnter(m)
    \/ IsrL788(m)
    \/ IsrL790(m)
    \/ IsrL805(m)
    \/ IsrL805s(m)
    \/ IsrL806(m)
    \/ IsrL808(m)

NextRead ==
    \/ \E t \in Readers : ReaderStep(t)
    \/ \E m \in Minors : IsrStep(m)
    \/ \E p \in PciDevs : HwComplete(p)

SpecRead == InitRead /\ [][NextRead]_vars

---------------------------------------------------------------------------
(* Specification SpecReturn: SpecRead with a fair scheduler and a fair      *)
(* timer.  A thread inside th260_read is scheduled again and again, the     *)
(* timeout of line 570 expires when the condition stays false, and the      *)
(* interrupt handler, once entered, runs on.  Nothing obliges a thread to   *)
(* call read, a signal to arrive or the hardware to complete a burst.       *)

InCall(t) == rd[t].pc \notin {"idle", "ret"}

(* a step of the thread inside the call (not the call itself, not the       *)
(* arrival of a signal)                                                      *)
ReaderRun(t) ==
    /\ InCall(t)
    /\ ReaderStep(t)
    /\ rd'[t].sig => rd[t].sig

(* a step of the handler after its entry *)
IsrRun(m) ==
    /\ isr[m].pc # "idle"
    /\ IsrStep(m)

SpecReturn ==
    /\ InitRead
    /\ [][NextRead]_vars
    /\ \A t \in Readers : WF_vars(ReaderRun(t))
    /\ \A m \in Minors : WF_vars(IsrRun(m))

---------------------------------------------------------------------------
(* Specification SpecReaders: two threads reading the same attached card   *)
(* at once (th260_open admits any number of them), the interrupt handler    *)
(* and the hardware.  Every call asks for one DMA buffer of data into a     *)
(* writable buffer, and no signal arrives.                                  *)

ConcurrentReaders == {1, 2}

(* th260_read calls per thread *)
MaxConcurrentCalls == 1

InitReaders ==
    /\ th260_cdev = [th260_cdev_init EXCEPT
                        ![0] = AttachedCard(0, 1, 1, 32, 0)]
    /\ kern = AttachedKern(0, 1, 1, 0)
    /\ pci = AttachedPci(0, 1)
    /\ last = NoCall
    /\ lock = [m \in Minors |-> Unlocked]
    /\ hw = [p \in PciDevs |-> [HwIdle EXCEPT !.bar0 = BAR_0_LEN * p]]
    /\ iolog = <<>>
    /\ rd = [t \in ConcurrentReaders |-> IdleReader(0)]
    /\ isr = [m \in Minors |-> IdleIsr]
    /\ outcomes = {}
    /\ mm = [t \in Mappers |-> IdleMapper(0)]
    /\ mlog = <<>>

ReaderStepPlain(t) ==
    \/ rd[t].calls < MaxConcurrentCalls /\ ReadCall(t, BUFFER_SIZE(0), FALSE, TRUE)
    \/ ReadL557(t)
    \/ ReadL558(t)
    \/ ReadL560(t)
    \/ ReadL562(t)
    \/ ReadL564(t)
    \/ DmaD494(t)
    \/ DmaD512(t)
    \/ ReadL568(t)
    \/ ReadL570Woken(t)
    \/ ReadL570Timeout(t)
    \/ ReadL578(t)
    \/ ReadL579(t, FALSE)
    \/ ReadL585(t)
    \/ ReadL591(t)
    \/ ReadL595(t)
    \/ ReadL596(t)
    \/ ReadL597(t)
    \/ ReadL609(t)

NextReaders ==
    \/ \E t \in ConcurrentReaders : ReaderStepPlain(t)
    \/ IsrStep(0)
    \/ HwComplete(1)

SpecReaders == InitReaders /\ [][NextReaders]_vars

---------------------------------------------------------------------------
(* Specification SpecStuck: SpecRead on hardware whose completion-status   *)
(* bit may be one that the reset pulse does not clear.  An interrupt        *)
(* handler that was entered runs on: weak fairness of its steps.            *)

InitStuck ==
    /\ th260_cdev = [th260_cdev_init EXCEPT
                        ![0] = AttachedCard(0, 1, 1, 32, 0)]
    /\ kern = AttachedKern(0, 1, 1, 0)
    /\ pci = AttachedPci(0, 1)
    /\ last = NoCall
    /\ lock = [m \in Minors |-> Unlocked]
    /\ \E stuck \in BOOLEAN :
          hw = [p \in PciDevs |-> [HwIdle EXCEPT !.bar0 = BAR_0_LEN * p,
                                                 !.stuck = stuck]]
    /\ iolog = <<>>
    /\ rd = [t \in Readers |-> IdleReader(0)]
    /\ isr = [m \in Minors |-> IdleIsr]
    /\ outcomes = {}
    /\ mm = [t \in Mappers |-> IdleMapper(0)]
    /\ mlog = <<>>

(* the steps of th260_interrupt after its entry *)
IsrBody(m) ==
    \/ IsrL788(m)
    \/ IsrL790(m)
    \/ IsrL805(m)
    \/ IsrL805s(m)
    \/ IsrL806(m)
    \/ IsrL808(m)

NextStuck ==
    \/ ReaderStep(1)
    \/ IsrEnter(0)
    \/ IsrBody(0)
    \/ HwComplete(1)

SpecStuck == InitStuck /\ [][NextStuck]_vars /\ WF_vars(IsrBody(0))

---------------------------------------------------------------------------
(* Specification SpecLife: module load and unload, attach and detach of    *)
(* the PCI devices of the machine.                                          *)

ProbeFaults ==
    {"none", "cdev_add", "enable", "region", "notmem", "ioremap", "mask",
     "irq"}

ProbeAllocs == {-1, 0, get_order(512 * 1024)}

(* the transfer-capability register of device p: bits 8..10 differ from   *)
(* device to device, the other bits are set                                 *)
DltrsOf(p) == ((5 * p) % 8) * 256 + 255

InitLife ==
    /\ th260_cdev = th260_cdev_init
    /\ lock = [m \in Minors |-> Unlocked]
    /\ hw = [p \in PciDevs |-> [HwIdle EXCEPT !.bar0 = BAR_0_LEN * p,
                                              !.dltrsstat = DltrsOf(p)]]
    /\ iolog = <<>>
    /\ rd = [t \in Readers |-> IdleReader(0)]
    /\ isr = [m \in Minors |-> IdleIsr]
    /\ outcomes = {}
    /\ mm = [t \in Mappers |-> IdleMapper(0)]
    /\ mlog = <<>>
    /\ pci = [p \in PciDevs |-> IdlePci]
    /\ kern = NoKern
    /\ last = NoCall

NextLife ==
    \/ \E p \in PciDevs, fail \in ProbeFaults, got \in ProbeAllocs :
          Probe(p, fail, got)
    \/ \E p \in PciDevs : Remove(p)
    \/ \E callback \in BOOLEAN : ModuleExit(callback)

SpecLife == InitLife /\ [][NextLife]_vars

---------------------------------------------------------------------------
(* Specification SpecFull: attach and detach on a machine with one        *)
(* card more than the device table has slots, from the state in which the   *)
(* first MAX_DEVICES cards are attached (card p in slot p - 1).  Their      *)
(* kernel objects carry the numbers of earlier probe calls, -MAX_DEVICES    *)
(* to -1, below those of the probe calls to come.                           *)

FullDevs == 1 .. (MAX_DEVICES + 1)

FullId(m) == m - MAX_DEVICES

InitFull ==
    /\ th260_cdev = [m \in Minors |->
                        AttachedCard(m, m + 1, FullId(m), MaxTlpOf(DltrsOf(m + 1)), 0)]
    /\ lock = [m \in Minors |-> Unlocked]
    /\ hw = [p \in FullDevs |-> [HwIdle EXCEPT !.bar0 = BAR_0_LEN * p,
                                              !.dltrsstat = DltrsOf(p)]]
    /\ iolog = <<>>
    /\ rd = [t \in Readers |-> IdleReader(0)]
    /\ isr = [m \in Minors |-> IdleIsr]
    /\ outcomes = {}
    /\ mm = [t \in Mappers |-> IdleMapper(0)]
    /\ mlog = <<>>
    /\ pci = [p \in FullDevs |->
                IF p <= MAX_DEVICES
                THEN [drvdata |-> <<p - 1>>, enable_cnt |-> 1,
                      region |-> TRUE, bound |-> TRUE]
                ELSE IdlePci]
    /\ kern = [NoKern EXCEPT
                 !.cdevs = {FullId(m) : m \in Minors},
                 !.iomaps = {FullId(m) : m \in Minors},
                 !.pages = {<<FullId(m), 0>> : m \in Minors},
                 !.irqs = {<<m + 1, m>> : m \in Minors},
                 !.nodes = Minors]
    /\ last = NoCall

FullFaults == {"none", "irq"}

NextFull ==
    \/ \E p \in FullDevs, fail \in FullFaults :
          Probe(p, fail, get_order(512 * 1024))
    \/ \E p \in FullDevs : pci[p].bound /\ Remove(p)

SpecFull == InitFull /\ [][NextFull]_vars

---------------------------------------------------------------------------
(* Specification SpecMmap: threads mapping and unmapping the register      *)
(* window of one attached card.                                             *)

MmapLens == {PAGE_SIZE, PAGE_ALIGN(BAR_0_LEN), PAGE_ALIGN(BAR_0_LEN) + PAGE_SIZE}

BarStarts == {BAR_0_LEN, BAR_0_LEN + 256}

InitMmap ==
    /\ th260_cdev = [th260_cdev_init EXCEPT
                        ![0] = AttachedCard(0, 1, 1, 32, 0)]
    /\ kern = AttachedKern(0, 1, 1, 0)
    /\ pci = AttachedPci(0, 1)
    /\ last = NoCall
    /\ lock = [m \in Minors |-> Unlocked]
    /\ \E b \in BarStarts : hw = [p \in PciDevs |-> [HwIdle EXCEPT !.bar0 = b]]
    /\ iolog = <<>>
    /\ rd = [t \in Readers |-> IdleReader(0)]
    /\ isr = [m \in Minors |-> IdleIsr]
    /\ outcomes = {}
    /\ mm = [t \in Mappers |-> IdleMapper(0)]
    /\ mlog = <<>>

MapperStep(t) ==
    \/ \E len \in MmapLens, fail \in BOOLEAN : MmapCall(t, len, fail)
    \/ MmapM701(t)
    \/ MmapM705(t)
    \/ MmapM710(t)
    \/ MmapM711(t)
    \/ MmapM714(t)
    \/ MmapM729(t)
    \/ MmapM736(t)
    \/ th260_vma_close(t)

NextMmap == \E t \in Mappers : MapperStep(t)

SpecMmap == InitMmap /\ [][NextMmap]_vars

---------------------------------------------------------------------------
(* Specification SpecIoctl: one thread mapping and unmapping the register  *)
(* window of an attached card, and ioctl calls on the card between its      *)
(* steps.                                                                   *)

InitIoctl == InitMmap

NextIoctl ==
    \/ MapperStep(1)
    \/ \E cmd \in IoctlCmds, access \in BOOLEAN, copy \in BOOLEAN :
          Ioctl(0, cmd, access, copy)

SpecIoctl == InitIoctl /\ [][NextIoctl]_vars

---------------------------------------------------------------------------
(* Specification SpecLock: every user of the card's lock at once: a thread *)
(* in th260_read, the interrupt handler, a thread in th260_mmap (one page,  *)
(* the remap succeeds), and ioctl calls, which take no lock.                *)

InitLock == InitReaders

MapperStepPlain(t) ==
    \/ MmapCall(t, PAGE_SIZE, FALSE)
    \/ MmapM701(t)
    \/ MmapM705(t)
    \/ MmapM710(t)
    \/ MmapM711(t)
    \/ MmapM714(t)
    \/ MmapM729(t)
    \/ MmapM736(t)
    \/ th260_vma_close(t)

NextLock ==
    \/ ReaderStepPlain(1)
    \/ IsrStep(0)
    \/ HwComplete(1)
    \/ MapperStepPlain(1)
    \/ Ioctl(0, "IOCTL_GET_SERIAL", TRUE, TRUE)

SpecLock == InitLock /\ [][NextLock]_vars

---------------------------------------------------------------------------
(* Properties of th260_dma_start (SpecDma) *)

EnableWritten(log) ==
    \E i \in 1 .. Len(log) : log[i] = <<DCSR_OFFSET, DCSR_ENABLE>>

DmaReturned(t) == rd[t].pc = "L568"

(* C2: for every maximum TLP size in {32,...,4096} and every byte count    *)
(* that is a positive multiple of 4 and at most the DMA-buffer capacity,    *)
(* whenever th260_dma_start has written the enable bit, the TLP size and    *)
(* TLP count it programmed satisfy tlp*4*tlpCount = byteCount and           *)
(* tlpCount <= 65535.                                                       *)
C2_EnableImpliesExactCover ==
    \A t \in Readers :
        LET c == pcard(t)
            h == hw[RegDev(c)]
        IN  ( /\ DmaReturned(t)
              /\ c.maxtlpsize \in MaxTlpSizes
              /\ c.dmacount > 0
              /\ c.dmacount % 4 = 0
              /\ c.dmacount <= BUFFER_SIZE(c.dmabuf_order)
              /\ EnableWritten(iolog) )
            => /\ h.wsize * 4 * h.wcount = c.dmacount
               /\ h.wcount <= 65535
               /\ h.en

(* C2 witness: a burst was triggered after the search had to halve *)
C2_Witness ==
    \E t \in Readers :
        /\ DmaReturned(t)
        /\ EnableWritten(iolog)
        /\ pcard(t).dmacount % 4 = 0
        /\ rd[t].s.iters > 0
        /\ hw[RegDev(pcard(t))].wsize < pcard(t).maxtlpsize

(* C3 as stated: a rejected th260_dma_start call has written no register   *)
(* at all.                                                                  *)
C3_RejectWritesNothing ==
    \A t \in Readers :
        (DmaReturned(t) /\ rd[t].dma = "rejected") => iolog = <<>>

(* C3 amended: a rejected th260_dma_start call has written the reset pulse *)
(* (1 then 0 to the control register) and nothing else: no source address,  *)
(* TLP size, TLP count or enable bit, and no burst is running.              *)
C3_RejectWritesOnlyResetPulse ==
    \A t \in Readers :
        (DmaReturned(t) /\ rd[t].dma = "rejected")
        => /\ iolog = << <<DCR_OFFSET, 1>>, <<DCR_OFFSET, 0>> >>
           /\ ~hw[RegDev(pcard(t))].en

(* C3 witness: a call rejected for an odd size *)
C3_Witness ==
    \E t \in Readers :
        /\ DmaReturned(t)
        /\ rd[t].dma = "rejected"
        /\ pcard(t).dmacount # rd[t].s.tlpsize * 4 * rd[t].s.tlpcount

---------------------------------------------------------------------------
(* Properties of th260_read (SpecRead) *)

Capacity(t) == BUFFER_SIZE(pcard(t).dmabuf_order)

(* C1: a read of N <= capacity bytes that completes returns exactly N, and *)
(* bytes completed for an earlier call are never counted in a later one:    *)
(* the call never credits itself, nor copies out, more than the N bytes it  *)
(* asked for.                                                               *)
C1_ReadReturnsExactlyN ==
    \A t \in Readers :
        LET r == rd[t] IN
        (r.pc # "idle" /\ r.N <= Capacity(t))
        => /\ (r.pc = "ret" /\ r.why = "done") => r.ret = r.N
           /\ r.total <= r.N
           /\ r.copied <= r.N

(* C4: the outcome of a read that timed out differs from the outcome of a  *)
(* read cancelled by a signal before any byte was copied.                   *)
C4_TimeoutDistinctFromInterrupted ==
    \A o1 \in outcomes, o2 \in outcomes :
        (o1[1] = "timeout" /\ o2[1] = "signal0") => o1[2] # o2[2]

(* C5: a read cancelled by a signal returns the number of bytes the call   *)
(* has copied to the destination, or Interrupted when that number is 0.     *)
C5_SignalReturnsBytesCopied ==
    \A t \in Readers :
        LET r == rd[t] IN
        (r.pc = "ret" /\ r.why \in {"signal", "signal0"})
        => r.ret = IF r.copied = 0 THEN -EINTR ELSE r.copied

---------------------------------------------------------------------------
(* Properties of th260_mmap (SpecMmap) *)

PastGate(t) == mm[t].pc \in {"M711", "M714", "M729", "M736"}

HoldsWindow(t) == mm[t].vmas > 0 \/ PastGate(t)

ValidCall(e) ==
    e.ev = "call" /\ e.len <= PAGE_ALIGN(BAR_0_LEN) /\ ~e.fail

(* C6: at most one mapping of the register window is active at any time;   *)
(* of concurrent attempts at most one passes the gate; an attempt that      *)
(* reaches the gate while a mapping is active returns Busy at once.         *)
C6_AtMostOneMapping ==
    /\ TotalVmas <= 1
    /\ \A t \in Mappers, u \in Mappers :
          t # u => ~(HoldsWindow(t) /\ HoldsWindow(u))
    /\ \A t \in Mappers : PastGate(t) => (TotalVmas = 0 /\ mcard(t).busy = 1)
    /\ \A t \in Mappers :
          mm[t].gateMapped => (mm[t].pc = "ret" /\ mm[t].ret = -EBUSY)

(* C6 witness: one thread holds the mapping, the other was turned away *)
C6_Witness ==
    \E t \in Mappers, u \in Mappers :
        /\ t # u
        /\ mm[t].vmas = 1
        /\ mm[u].gateMapped
        /\ mm[u].pc = "ret"
        /\ mm[u].ret = -EBUSY

C7_First(l, i) ==
    /\ l[i].ev = "call" /\ l[i].free /\ ValidCall(l[i])
    /\ l[i + 1].ev = "ret"

C7_Second(l, i) ==
    /\ C7_First(l, i)
    /\ l[i + 2].ev = "call"
    /\ l[i + 3].ev = "ret"

C7_Third(l, i) ==
    /\ C7_Second(l, i)
    /\ l[i + 4].ev = "close" /\ l[i + 4].t = l[i].t
    /\ ValidCall(l[i + 5])
    /\ l[i + 6].ev = "ret"

(* C7: three mmap attempts made one after the other on a free card - a     *)
(* first mmap, a second while the first mapping is active, then the release *)
(* of the first mapping and a third mmap - yield success, Busy, success.    *)
C7_SuccessBusySuccess ==
    \A i \in 1 .. Len(mlog) :
        /\ (i + 1 <= Len(mlog) /\ C7_First(mlog, i)) => mlog[i + 1].rc = 0
        /\ (i + 3 <= Len(mlog) /\ C7_Second(mlog, i))
              => mlog[i + 3].rc = -EBUSY
        /\ (i + 6 <= Len(mlog) /\ C7_Third(mlog, i)) => mlog[i + 6].rc = 0

(* C7 witness: the three attempts have been made *)
C7_Witness ==
    /\ Len(mlog) >= 7
    /\ C7_Third(mlog, 1)
    /\ mlog[2].rc = 0 /\ mlog[4].rc = -EBUSY /\ mlog[7].rc = 0

C8_Oversize(l, i) ==
    /\ l[i].ev = "call" /\ l[i].free
    /\ l[i].len > PAGE_ALIGN(BAR_0_LEN)
    /\ l[i + 1].ev = "ret"

(* C8: an mmap on a free card whose length exceeds the page-rounded window *)
(* size fails with InvalidArgument, creates no mapping and leaves the busy  *)
(* flag clear, and a following mmap of valid length succeeds.               *)
C8_OversizeLeavesCardFree ==
    \A i \in 1 .. Len(mlog) :
        (i + 1 <= Len(mlog) /\ C8_Oversize(mlog, i))
        => /\ mlog[i + 1].rc = -EINVAL
           /\ (i + 1 = Len(mlog))
                 => \A t \in Mappers : mcard(t).busy = 0 /\ mm[t].vmas = 0
           /\ (i + 3 <= Len(mlog) /\ ValidCall(mlog[i + 2])
                                  /\ mlog[i + 3].ev = "ret")
                 => mlog[i + 3].rc = 0

(* C8 witness: the oversized attempt and the valid one after it *)
C8_Witness ==
    /\ Len(mlog) >= 4
    /\ C8_Oversize(mlog, 1)
    /\ ValidCall(mlog[3])
    /\ mlog[2].rc = -EINVAL
    /\ mlog[4].rc = 0

---------------------------------------------------------------------------
(* Properties of attach and detach (SpecLife) *)

TeardownSteps ==
    <<"cdev_del", "device_destroy", "th260_reset", "free_irq", "iounmap",
      "pci_release_region", "free_pages", "th260_cdev_del">>

Names(eff) == [i \in 1 .. Len(eff) |-> eff[i][1]]

(* C9: of two th260_remove calls made one after the other for an attached  *)
(* card, the first performs every teardown step once and the second         *)
(* performs none and changes no state.                                      *)
C9_SecondRemoveChangesNothing ==
    /\ []((last.op = "remove" /\ last.own)
             => Names(last.eff) = TeardownSteps)
    /\ [][(/\ last.op = "remove" /\ last.own
           /\ last'.op = "remove" /\ last'.pdev = last.pdev /\ last'.again)
          => (/\ last'.eff = <<>>
              /\ UNCHANGED <<th260_cdev, hw, pci, kern>>)]_vars

(* C9 witness: the second of two remove calls for an attached card has     *)
(* returned                                                                 *)
C9_Witness ==
    /\ last.op = "remove"
    /\ last.again
    /\ last.eff = <<>>
    /\ pci[last.pdev].drvdata # <<>>

ReleaseRank(name) ==
    CASE name = "th260_cdev_del" -> 1
      [] name = "cdev_del" -> 2
      [] name = "pci_release_region" -> 3
      [] name = "iounmap" -> 4
      [] name = "free_pages" -> 5
      [] OTHER -> 0

Releases(eff) == SelectSeq(Names(eff), LAMBDA n : ReleaseRank(n) > 0)

(* C10: when th260_probe has failed, the slot it claimed is free again,    *)
(* the character device, the register mapping and the DMA pages it created  *)
(* are gone, the BAR region it requested is released, and the releases      *)
(* were made in the reverse of the order of acquisition.                    *)
C10_FailedProbeReleasesAll ==
    (last.op = "probe" /\ last.rc # 0)
    => /\ last.minor >= 0 => th260_cdev[last.minor].pci_dev = NULL
       /\ last.id \notin kern.cdevs
       /\ last.id \notin kern.iomaps
       /\ \A o \in DmaOrders : <<last.id, o>> \notin kern.pages
       /\ (\E i \in 1 .. Len(last.eff) :
              last.eff[i][1] = "pci_request_region")
             => ~pci[last.pdev].region
       /\ \A i \in 1 .. Len(Releases(last.eff)),
             j \in 1 .. Len(Releases(last.eff)) :
             i < j => ReleaseRank(Releases(last.eff)[i])
                        > ReleaseRank(Releases(last.eff)[j])

(* C11: when __get_free_pages has failed at every order, th260_probe has  *)
(* failed, has created no device node, has registered no interrupt handler  *)
(* and has unmapped the register window it mapped.                          *)
C11_AllocFailureUnwinds ==
    (last.op = "probe" /\ last.fail = "dma")
    => /\ last.rc # 0
       /\ last.minor \notin kern.nodes
       /\ <<last.pdev, last.minor>> \notin kern.irqs
       /\ last.id \notin kern.iomaps

(* the cards the platform holds attached to the driver *)
Attached == {p \in DOMAIN pci : pci[p].bound}

TableFull == \A i \in Minors : th260_cdev[i].pci_dev # NULL

(* C13: never more than MAX_DEVICES cards are attached, and a th260_probe   *)
(* called while no slot is free fails, creates no device node and leaves    *)
(* the table, the hardware, every kernel object and every other card's      *)
(* driver data as they were.                                                *)
C13_FullTableRejects ==
    /\ [](Cardinality(Attached) <= MAX_DEVICES)
    /\ [][(TableFull /\ kern'.nprobe = kern.nprobe + 1)
          => /\ last'.rc # 0
             /\ kern'.nodes = kern.nodes
             /\ th260_cdev' = th260_cdev
             /\ hw' = hw
             /\ kern'.cdevs = kern.cdevs /\ kern'.iomaps = kern.iomaps
             /\ kern'.pages = kern.pages /\ kern'.irqs = kern.irqs
             /\ \A q \in DOMAIN pci : q # last'.pdev => pci'[q] = pci[q]]_vars

C13_Witness ==
    /\ last.op = "probe" /\ last.fail = "slot" /\ last.rc = -ENODEV
    /\ Cardinality(Attached) = MAX_DEVICES
    /\ ~pci[last.pdev].bound

(* the positions in a call's step list at which a step of that name occurs *)
StepsNamed(eff, name) == {i \in 1 .. Len(eff) : eff[i][1] = name}

C14_DetachedBeforeRelease ==
    \A i \in StepsNamed(last.eff, "device_destroy") :
       \A j \in StepsNamed(last.eff, "unregister_chrdev_region") : i < j

C14_TornDownOnce ==
    /\ kern.nodes = {} /\ kern.irqs = {}
    /\ \A m \in Minors :
          Cardinality({i \in StepsNamed(last.eff, "device_destroy") :
                          last.eff[i][2] = m}) <= 1

C14_SlotsEmpty == \A i \in Minors : th260_cdev[i].pci_dev = NULL

(* C14: when pci_exit_module has returned, with or without the remove      *)
(* callbacks of pci_unregister_driver, every attached card was detached     *)
(* before unregister_chrdev_region, no card was torn down twice, and every  *)
(* slot of the device table is empty.                                       *)
C14_UnloadDetachesAll ==
    (last.op = "exit")
    => /\ C14_DetachedBeforeRelease
       /\ C14_TornDownOnce
       /\ C14_SlotsEmpty

IoctlArgs == last.eff[1]

(* C15: an ioctl with one of the three known commands whose destination    *)
(* cannot be written, be it refused by access_ok or by copy_to_user, has    *)
(* returned -EFAULT, and an ioctl with any other command has returned       *)
(* -EINVAL.                                                                 *)
C15_IoctlErrors ==
    (last.op = "ioctl")
    => /\ (IoctlArgs[1] \in IoctlValued /\ ~(IoctlArgs[2] /\ IoctlArgs[3]))
             => last.rc = -EFAULT
       /\ (IoctlArgs[1] \notin IoctlValued) => last.rc = -EINVAL

(* the offset the card records for its register window *)
RecordedOffset == th260_cdev[0].bar0offset

(* the thread is inside an mmap call that fails: its remap is going to     *)
(* fail, or this step returns an error                                      *)
MmapFailing(t) ==
    /\ InMmap(t)
    /\ \/ mm[t].fail
       \/ mm'[t].pc = "ret" /\ mm'[t].ret # 0

(* C16: IOCTL_GET_BAROFFS stores the offset the card records, and no step  *)
(* of an mmap call that fails with -EBUSY, -EINVAL or -EAGAIN changes the   *)
(* recorded offset.                                                         *)
C16_FailedMmapKeepsOffset ==
    /\ [][(last' # last /\ last'.op = "ioctl" /\ last'.rc = 0
           /\ last'.eff[1][1] = "IOCTL_GET_BAROFFS")
          => last'.eff[2][2] = RecordedOffset]_vars
    /\ [][\A t \in Mappers :
            (MmapFailing(t) /\ mm'[t] # mm[t])
            => RecordedOffset' = RecordedOffset]_vars

FreeSlots == {i \in Minors : th260_cdev[i].pci_dev = NULL}

(* every attached card has its own device node, and there is no other node *)
OneNodePerCard ==
    /\ \A p \in Attached :
          /\ pci[p].drvdata # <<>>
          /\ pci[p].drvdata[1] \in kern.nodes
          /\ th260_cdev[pci[p].drvdata[1]].pci_dev = p
    /\ Cardinality(kern.nodes) = Cardinality(Attached)

(* the number of the probe call that attached the card of slot i *)
AttachedAt(i) == th260_cdev[i].cdev

(* C17 as stated: one node per attached card, and of two attached cards    *)
(* the one attached later never has the smaller minor.                      *)
C17_MinorsFollowAttachOrder ==
    /\ OneNodePerCard
    /\ \A i \in kern.nodes : \A j \in kern.nodes :
          AttachedAt(i) < AttachedAt(j) => i < j

(* C17 amended: one node per attached card, and a successful th260_probe   *)
(* gives the card the lowest minor that was free; no relation to the        *)
(* minors of the cards attached earlier is kept once a slot was freed.      *)
C17_AttachTakesLowestFree ==
    /\ []OneNodePerCard
    /\ [][(kern'.nprobe = kern.nprobe + 1 /\ last'.rc = 0)
          => /\ last'.minor \in FreeSlots
             /\ \A j \in FreeSlots : last'.minor <= j
             /\ kern'.nodes = kern.nodes \cup {last'.minor}
             /\ th260_cdev'[last'.minor].pci_dev = last'.pdev]_vars

(* C17 witness: a card attached after a detach holds a smaller minor than  *)
(* a card attached before it                                                *)
C17_Witness ==
    /\ last.op = "probe" /\ last.rc = 0
    /\ \E j \in kern.nodes :
          /\ last.minor < j
          /\ AttachedAt(j) < AttachedAt(last.minor)

(* the burst a thread triggered is running: the enable bit is up and the   *)
(* thread is blocked at the wait of line 570 for its completion             *)
InFlightFor(u) ==
    /\ rd[u].pc = "L570"
    /\ rd[u].dma = "started"
    /\ hw[RegDev(pcard(u))].en

(* C18: no thread enters th260_dma_start (line 566, first register write   *)
(* at line 494) on a card while the burst triggered by another thread       *)
(* reading the same card is still running.                                  *)
C18_NoTriggerWhileInFlight ==
    [][\A t \in ConcurrentReaders :
          (rd[t].pc = "D494" /\ rd'[t].pc = "D512")
          => ~ \E u \in ConcurrentReaders \ {t} :
                   rd[u].card = rd[t].card /\ InFlightFor(u)]_vars

(* the thread is inside a pass of the do-loop of th260_read: line 557 has  *)
(* reset bytes_done and line 597 has not yet reduced count                  *)
InIteration(t) ==
    rd[t].pc \in {"L558", "L560", "L562", "L564", "D494", "D512", "L568",
                  "L570", "L578", "L579", "L585", "L591", "L595", "L596",
                  "L597"}

(* the byte count of the chunk in progress: MIN(count, BUFFER_SIZE(order)) *)
ChunkOf(t) == USizeMin(rd[t].count, BUFFER_SIZE(pcard(t).dmabuf_order))

(* C19: while a thread is inside a pass of the read loop, bytes_done of    *)
(* its card is at most the byte count of the chunk of that pass.            *)
C19_BytesDoneWithinChunk ==
    \A t \in Readers : InIteration(t) => pcard(t).bytes_done <= ChunkOf(t)

(* C20: th260_interrupt, once it has found the completion-status bit set   *)
(* and entered the acknowledge loop of lines 788-798, returns, also on      *)
(* hardware that never clears the bit.                                      *)
C20_HandlerReturns ==
    (isr[0].pc = "L788") ~> (isr[0].pc = "idle")

---------------------------------------------------------------------------
(* Properties of the TLP search (SpecDma) *)

RECURSIVE CeilLog2From(_, _)
CeilLog2From(n, k) == IF Pow2(k) >= n THEN k ELSE CeilLog2From(n, k + 1)

CeilLog2(n) == CeilLog2From(n, 0)

SearchDone(t) == rd[t].pc \in {"D512", "L568"}

(* C21: for every maximum TLP size in {32,...,4096} and every byte count,  *)
(* the halving search of th260_dma_start has ended after at most            *)
(* ceil(log2(maxtlpsize)) halvings with a TLP size that is a power of two   *)
(* between 2 and maxtlpsize.                                                *)
C21_SearchBounded ==
    \A t \in Readers :
       SearchDone(t)
       => /\ rd[t].s.iters <= CeilLog2(pcard(t).maxtlpsize)
          /\ rd[t].s.tlpsize = Pow2(CeilLog2(rd[t].s.tlpsize))
          /\ 2 <= rd[t].s.tlpsize
          /\ rd[t].s.tlpsize <= pcard(t).maxtlpsize

(* C21 witness: from the largest maximum TLP size the search has halved    *)
(* all the way down to 2 dwords                                             *)
C21_Witness ==
    \E t \in Readers :
       /\ SearchDone(t)
       /\ pcard(t).maxtlpsize = 4096
       /\ rd[t].s.tlpsize = 2
       /\ rd[t].s.iters = 11
       /\ rd[t].s.rest # 0

---------------------------------------------------------------------------
(* Properties of th260_interrupt (SpecRead) *)

StatusBit(dcsr) == (dcsr \div BUSMASTERED_READ_DONE) % 2

(* C22: a run of th260_interrupt that finds the completion-status bit of   *)
(* its card clear returns IRQ_NONE in that step, writes no register,        *)
(* leaves every field of the card (bytes_done, dmacount, irq_received)      *)
(* and the lock as they were, and wakes no reader.                          *)
C22_NotOursNoEffect ==
    [][\A m \in Minors :
          (/\ isr[m].pc = "idle"
           /\ isr'[m] # isr[m]
           /\ StatusBit(IoRead32Dcsr(hw[RegDev(th260_cdev[m])])) = 0)
          => /\ isr'[m].pc = "idle"
             /\ isr'[m].handled = 0
             /\ UNCHANGED <<th260_cdev, hw, iolog, lock, rd>>]_vars

(* C22 witness: the handler has run and returned IRQ_NONE while a burst    *)
(* of the card was enabled and not yet complete                             *)
C22_Witness ==
    /\ isr[0].pc = "idle"
    /\ isr[0].handled = 0
    /\ isr[0].dcsr % 2 = DCSR_ENABLE
    /\ StatusBit(isr[0].dcsr) = 0
    /\ \E t \in Readers : rd[t].pc = "L570"

(* the thread is inside the trigger sequence of lines 564-568 *)
InTrigger(t) == rd[t].pc \in {"L564", "D494", "D512", "L568"}

(* the handler of card m is between its entry and its spin_unlock *)
InHandler(m) == isr[m].pc # "idle"

(* C23: a thread inside the trigger sequence holds the lock of its card,   *)
(* the handler between the status test and its unlock holds the lock of     *)
(* its card, and the two are never inside these sections of the same card   *)
(* at once.                                                                 *)
C23_TriggerAndBookkeepingExclusive ==
    /\ \A t \in DOMAIN rd : InTrigger(t) => lock[rd[t].card] = ReadOwner(t)
    /\ \A m \in Minors : InHandler(m) => lock[m] = IsrOwner
    /\ \A t \in DOMAIN rd : ~(InTrigger(t) /\ InHandler(rd[t].card))

(* C23 witness: a thread stands at line 562 asking for the lock while the  *)
(* handler of its card is in the middle of bytes_done += dmacount           *)
C23_Witness ==
    \E t \in DOMAIN rd :
       /\ rd[t].pc = "L562"
       /\ isr[rd[t].card].pc = "L805s"
       /\ lock[rd[t].card] = IsrOwner

---------------------------------------------------------------------------
(* Properties of the chunk loop of th260_read *)

(* the step is the thread's call of th260_dma_start (line 566) *)
Triggers(t) == rd[t].pc = "D494" /\ rd'[t].pc = "D512"

(* C24: a read call calls th260_dma_start again only after it has seen     *)
(* the completion of the burst it started before (irq_received set at line  *)
(* 591, after the copy of lines 578-583), so never after a wait that ended  *)
(* by timeout (rc = 0) or by a signal (rc < 0); and a wait that ends by     *)
(* timeout or with a signal pending ends the call.                          *)
C24_ChunksSequential ==
    /\ [][\A t \in DOMAIN rd :
             Triggers(t) => (~rd[t].open /\ (rd[t].fired => rd[t].rc > 0))]_vars
    /\ [][\A t \in DOMAIN rd :
             (rd[t].pc = "L570" /\ rd'[t].pc # "L570" /\ rd'[t].rc <= 0)
             => (rd'[t].pc = "ret" \/ rd'[t].sig)]_vars
    /\ [][\A t \in DOMAIN rd :
             (rd[t].pc = "L585" /\ rd'[t].pc # "L585" /\ rd[t].sig)
             => rd'[t].pc = "ret"]_vars

(* C25: a read call calls th260_dma_start at most once in each pass of     *)
(* its do-loop (one pass per chunk), and a wait that ends by timeout makes  *)
(* the call return an error in that step, with no further call of           *)
(* th260_dma_start.                                                         *)
C25_NoRetry ==
    /\ [][\A t \in DOMAIN rd : Triggers(t) => ~rd[t].fired]_vars
    /\ [][\A t \in DOMAIN rd :
             (rd[t].pc = "L570" /\ rd'[t].pc # "L570" /\ rd'[t].rc = 0)
             => (rd'[t].pc = "ret" /\ rd'[t].ret < 0)]_vars

---------------------------------------------------------------------------
(* Properties of the card's lock (SpecLock) *)

(* the mapper is between spin_lock_irqsave and spin_unlock_irqrestore *)
InGate(t) == mm[t].pc \in {"M705", "M710", "M711"}

(* C26: a thread blocked in the wait of line 570 does not hold the lock of *)
(* the card, and whoever holds the lock is inside one of the short          *)
(* sections (trigger sequence of th260_read, busy gate of th260_mmap,       *)
(* th260_interrupt), none of which waits; an ioctl leaves the lock alone.   *)
C26_LockNotHeldWhileSuspended ==
    /\ [](\A t \in DOMAIN rd :
             /\ rd[t].pc = "L570" => lock[rd[t].card] # ReadOwner(t)
             /\ \A m \in Minors :
                   lock[m] = ReadOwner(t) => (InTrigger(t) /\ rd[t].card = m))
    /\ [](\A t \in Mappers : \A m \in Minors :
             lock[m] = MmapOwner(t) => (InGate(t) /\ mm[t].card = m))
    /\ [](\A m \in Minors : lock[m] = IsrOwner => InHandler(m))
    /\ [][(last' # last /\ last'.op = "ioctl") => lock' = lock]_vars

(* C26 witness: while a reader is blocked in its wait, a thread in         *)
(* th260_mmap holds the lock of the same card                               *)
C26_Witness ==
    \E t \in DOMAIN rd : \E u \in Mappers :
       /\ rd[t].pc = "L570"
       /\ mm[u].card = rd[t].card
       /\ lock[rd[t].card] = MmapOwner(u)

---------------------------------------------------------------------------
(* Properties of the order of steps in th260_probe and th260_remove *)

(* the positions in a call's step list at which that very step occurs *)
StepsAt(eff, step) == {i \in 1 .. Len(eff) : eff[i] = step}

(* every occurrence of a step named a precedes every one of a step named b, *)
(* and both occur                                                            *)
Before(eff, a, b) ==
    /\ StepsNamed(eff, a) # {}
    /\ StepsNamed(eff, b) # {}
    /\ \A i \in StepsNamed(eff, a) : \A j \in StepsNamed(eff, b) : i < j

(* register map, serial read, capability read, reset, buffer allocation,   *)
(* interrupt registration, in this order                                    *)
C27_SetupOrder ==
    /\ \A i \in StepsNamed(last.eff, "ioremap") :
          \A j \in StepsAt(last.eff, <<"ioread32", MB_SERIAL_OFFSET>>) : i < j
    /\ \A i \in StepsAt(last.eff, <<"ioread32", MB_SERIAL_OFFSET + 4>>) :
          \A j \in StepsAt(last.eff, <<"ioread32", TRANS_SIZE_OFFSET>>) : i < j
    /\ Cardinality(StepsAt(last.eff, <<"ioread32", MB_SERIAL_OFFSET>>)) = 1
    /\ Cardinality(StepsAt(last.eff, <<"ioread32", MB_SERIAL_OFFSET + 4>>)) = 1
    /\ Before(last.eff, "ioread32", "th260_reset")
    /\ Before(last.eff, "th260_reset", "__get_free_pages")
    /\ Before(last.eff, "__get_free_pages", "request_irq")

(* the device node and the character device come after all of them *)
C27_VisibleLast ==
    /\ Before(last.eff, "request_irq", "device_create")
    /\ Before(last.eff, "request_irq", "cdev_add")

(* C27: a th260_probe that returned 0 has mapped the registers, read the   *)
(* serial number (once), read the capability register, reset the card,      *)
(* allocated the DMA buffer and registered the interrupt handler in this    *)
(* order, and has registered the character device (cdev_add) and created    *)
(* the device node (device_create) only after all of these.                 *)
C27_AttachOrder ==
    (last.op = "probe" /\ last.rc = 0)
    => (C27_SetupOrder /\ C27_VisibleLast)


(* the step named a occurs exactly once and before every step named b *)
OnceBefore(eff, a, b) ==
    /\ Cardinality(StepsNamed(eff, a)) = 1
    /\ \A i \in StepsNamed(eff, a) : \A j \in StepsNamed(eff, b) : i < j

(* C28: a th260_remove that tears a card down removes the device node,     *)
(* resets the hardware, releases the interrupt, unmaps the registers,       *)
(* releases the memory region, frees the DMA buffer (when there is one)     *)
(* and clears the slot, each once and in this order; in particular free_irq *)
(* comes before iounmap.                                                    *)
C28_DetachOrder ==
    (last.op = "remove" /\ last.eff # <<>>)
    => /\ OnceBefore(last.eff, "device_destroy", "th260_reset")
       /\ OnceBefore(last.eff, "th260_reset", "free_irq")
       /\ OnceBefore(last.eff, "free_irq", "iounmap")
       /\ OnceBefore(last.eff, "iounmap", "pci_release_region")
       /\ OnceBefore(last.eff, "pci_release_region", "free_pages")
       /\ OnceBefore(last.eff, "pci_release_region", "th260_cdev_del")
       /\ Cardinality(StepsNamed(last.eff, "free_pages")) <= 1
       /\ \A i \in StepsNamed(last.eff, "free_pages") :
             \A j \in StepsNamed(last.eff, "th260_cdev_del") : i < j
       /\ Cardinality(StepsNamed(last.eff, "th260_cdev_del")) = 1
       /\ \A i \in Minors : th260_cdev[i].pci_dev # last.pdev

(* C28 witness: a remove of an attached card with a DMA buffer has run its *)
(* teardown down to the clearing of the slot                                *)
C28_Witness ==
    /\ last.op = "remove" /\ last.own
    /\ StepsNamed(last.eff, "free_pages") # {}
    /\ StepsNamed(last.eff, "free_irq") # {}
    /\ last.eff[Len(last.eff)][1] = "th260_cdev_del"


(* the cards whose device node exists: published by device_create (line    *)
(* 970) and not yet taken down by device_destroy (line 1005)                *)
Published == kern.nodes

(* C29: a card whose device node exists has a register window that is      *)
(* mapped and a DMA buffer that is allocated: bar0base and dmabuf are       *)
(* non-NULL and name a mapping and pages the kernel still holds.            *)
C29_PublishedCardHasResources ==
    \A m \in Published :
       LET c == th260_cdev[m] IN
       /\ c.pci_dev # NULL
       /\ c.bar0base # NoMap
       /\ c.bar0base[1] \in kern.iomaps
       /\ c.dmabuf # NULL
       /\ <<c.dmabuf, c.dmabuf_order>> \in kern.pages

(* C29 witness: one card is published with its resources while another     *)
(* card has been detached                                                   *)
C29_Witness ==
    /\ last.op = "remove" /\ last.own
    /\ \E m \in Published :
          /\ th260_cdev[m].bar0base[1] \in kern.iomaps
          /\ th260_cdev[m].dmabuf # NULL


---------------------------------------------------------------------------
(* Properties of the termination of th260_read *)

(* the call has gone round the do-loop as often as the model follows it *)
LoopCapped(t) == rd[t].pc = "L557" /\ rd[t].chunks >= MaxChunks

(* every wait of line 570 ends *)
C30_WaitEnds ==
    \A t \in Readers : (rd[t].pc = "L570") ~> (rd[t].pc # "L570")

(* every completed chunk leaves fewer bytes to read, and not less than none *)
C30_ChunkDecreases ==
    [][\A t \in Readers :
          (rd[t].pc = "L597" /\ rd'[t].pc = "L609")
          => (rd'[t].count >= 0 /\ rd'[t].count < rd[t].count)]_vars

(* C30: under a fair scheduler and a fair timer every wait of line 570     *)
(* ends, every completed chunk strictly decreases the number of bytes       *)
(* still to read (count, an unsigned number), and every call of th260_read  *)
(* returns (as far as the model follows the loop).                          *)
C30_EveryReadReturns ==
    /\ C30_WaitEnds
    /\ C30_ChunkDecreases
    /\ \A t \in Readers : InCall(t) ~> (rd[t].pc = "ret" \/ LoopCapped(t))


---------------------------------------------------------------------------
(* Specification SpecCards: two cards in use at once.  Card 0 (device 1)    *)
(* is read, card 1 (device 2) is mapped and asked for its serial number,    *)
(* both interrupt handlers run (the line is shared), and the devices are    *)
(* detached and attached.  Calls are made on attached cards and a card is   *)
(* detached while no call on it is in flight.                               *)

InitCards ==
    /\ th260_cdev = [th260_cdev_init EXCEPT
                        ![0] = AttachedCard(0, 1, FullId(0), 32, 0),
                        ![1] = AttachedCard(1, 2, FullId(1), 32, 0)]
    /\ kern = [NoKern EXCEPT !.cdevs = {FullId(0), FullId(1)},
                             !.iomaps = {FullId(0), FullId(1)},
                             !.pages = {<<FullId(0), 0>>, <<FullId(1), 0>>},
                             !.irqs = {<<1, 0>>, <<2, 1>>},
                             !.nodes = {0, 1}, !.nprobe = 0]
    /\ pci = [p \in PciDevs |->
                [drvdata |-> <<p - 1>>, enable_cnt |-> 1, region |-> TRUE,
                 bound |-> TRUE]]
    /\ last = NoCall
    /\ lock = [m \in Minors |-> Unlocked]
    /\ hw = [p \in PciDevs |-> [HwIdle EXCEPT !.bar0 = BAR_0_LEN * p,
                                              !.dltrsstat = DltrsOf(p)]]
    /\ iolog = <<>>
    /\ rd = [t \in Readers |-> IdleReader(0)]
    /\ isr = [m \in Minors |-> IdleIsr]
    /\ outcomes = {}
    /\ mm = [t \in Mappers |-> IdleMapper(1)]
    /\ mlog = <<>>

(* the card in slot m is attached and its register window is mapped *)
InUse(m) ==
    /\ th260_cdev[m].pci_dev # NULL
    /\ th260_cdev[m].bar0base[1] \in kern.iomaps

(* no call on the card in slot m is in flight *)
Quiet(m) ==
    /\ \A t \in DOMAIN rd : rd[t].card = m => rd[t].pc \in {"idle", "ret"}
    /\ \A t \in Mappers : mm[t].card = m => mm[t].pc \in {"idle", "ret"}
    /\ isr[m].pc = "idle"
    /\ ~hw[RegDev(th260_cdev[m])].en

(* th260_remove as the PCI core and a repeated call make it *)
RemoveQuiet(p) ==
    /\ pci[p].drvdata # <<>>
    /\ Quiet(pci[p].drvdata[1])
    /\ Remove(p)

NextCards ==
    \/ InUse(0) /\ ReaderStepPlain(1)
    \/ \E m \in {0, 1} : InUse(m) /\ IsrStep(m)
    \/ HwComplete(RegDev(th260_cdev[0]))
    \/ InUse(1) /\ MapperStepPlain(1)
    \/ Ioctl(1, "IOCTL_GET_SERIAL", TRUE, TRUE)
    \/ \E p \in PciDevs : RemoveQuiet(p)
    \/ \E p \in PciDevs : Probe(p, "none", 0)

SpecCards == InitCards /\ [][NextCards]_vars

---------------------------------------------------------------------------
(* Properties of the independence of the cards *)

(* the step changes the state of the card in slot n: its fields, its lock,  *)
(* its registers, its register window or its DMA buffer                      *)
CardTouched(n) ==
    LET c == th260_cdev[n] IN
    \/ th260_cdev'[n] # c
    \/ lock'[n] # lock[n]
    \/ /\ c.pci_dev # NULL
       /\ \/ c.bar0base[1] \in kern.iomaps \ kern'.iomaps
          \/ <<c.dmabuf, c.dmabuf_order>> \in kern.pages \ kern'.pages
          \/ n \in kern.nodes \ kern'.nodes

(* the step is one of an operation performed on the card in slot n *)
ActsOn(n) ==
    \/ \E t \in DOMAIN rd : rd'[t] # rd[t] /\ rd[t].card = n
    \/ \E t \in Mappers : mm'[t] # mm[t] /\ mm[t].card = n
    \/ isr'[n] # isr[n]
    \/ last' # last /\ last'.op = "ioctl" /\ last'.minor = n
    \/ last' # last /\ last'.op = "probe" /\ last'.minor = n
    \/ last' # last /\ last'.op = "remove"
          /\ th260_cdev[n].pci_dev = last'.pdev

(* C31: a step that changes the state of a card (its counters, completion  *)
(* flag, busy flag, lock, register window, DMA buffer, device node or slot  *)
(* occupancy) belongs to a read, mmap, ioctl, interrupt, attach or detach   *)
(* performed on that card.                                                  *)
C31_CardsIndependent ==
    [][\A n \in Minors : CardTouched(n) => ActsOn(n)]_vars


---------------------------------------------------------------------------
(* Specification SpecAlloc: attach and detach while the memory the page     *)
(* allocator can give changes.  kern.avail holds the orders at which        *)
(* __get_free_pages(GFP_KERNEL | GFP_DMA, order) returns pages.             *)

AllocFaults == {"none", "irq"}

(* the orders whose availability varies: one page, a middle size, 512 kB *)
AvailOrders == {0, 3, get_order(512 * 1024)}

MemoryChanges(avail) ==
    /\ kern.loaded
    /\ avail # kern.avail
    /\ kern' = [kern EXCEPT !.avail = avail]
    /\ UNCHANGED <<cardVars, hwVars, readVars, mmapVars, pci, last>>

ProbeMem(p, fail) ==
    Probe(p, fail, AllocLoop(get_order(512 * 1024), kern.avail))

InitAlloc ==
    /\ InitLife

NextAlloc ==
    \/ \E avail \in SUBSET AvailOrders : MemoryChanges(avail)
    \/ \E p \in PciDevs, fail \in AllocFaults : ProbeMem(p, fail)
    \/ \E p \in PciDevs : pci[p].bound /\ Remove(p)

SpecAlloc == InitAlloc /\ [][NextAlloc]_vars

---------------------------------------------------------------------------
(* Properties of the allocation of the DMA buffer *)

(* the orders th260_probe asked the allocator for, in the order of asking *)
OrdersTried(eff) ==
    LET tries == SelectSeq(eff, LAMBDA e : e[1] = "__get_free_pages")
    IN  [i \in 1 .. Len(tries) |-> tries[i][2]]

(* C32: a th260_probe that reached the allocation tried the orders from    *)
(* get_order(512 kB) downwards one by one; when it went on, the recorded    *)
(* dmabuf_order is the largest order the allocator could serve, the pages   *)
(* of that order are held, and no order below it was tried; it failed at    *)
(* the allocation only when the allocator could not serve even order 0.     *)
C32_LargestBufferKept ==
    [][(/\ kern'.nprobe = kern.nprobe + 1
        /\ last'.fail \in {"none", "dma", "mask", "irq"})
       => LET c == th260_cdev'[last'.minor]
              tried == OrdersTried(last'.eff)
          IN  /\ Len(tried) >= 1
              /\ \A i \in 1 .. Len(tried) :
                    tried[i] = get_order(512 * 1024) - i + 1
              /\ tried[Len(tried)] = c.dmabuf_order
              /\ \A i \in 1 .. (Len(tried) - 1) : tried[i] \notin kern.avail
              /\ (last'.fail = "dma") <=> (kern.avail = {})
              /\ last'.fail = "dma" => (c.dmabuf = NULL /\ c.dmabuf_order = 0)
              /\ last'.fail # "dma"
                    => /\ c.dmabuf # NULL
                       /\ c.dmabuf_order \in kern.avail
                       /\ \A o \in kern.avail : o <= c.dmabuf_order
                       /\ BUFFER_SIZE(c.dmabuf_order) <= 512 * 1024
                       /\ BUFFER_SIZE(c.dmabuf_order) >= PAGE_SIZE
              /\ last'.fail = "none"
                    => <<c.dmabuf, c.dmabuf_order>> \in kern'.pages]_vars

(* C32 witness: an attach succeeded with a buffer smaller than 512 kB      *)
(* after the larger orders had failed, although one page was not the only   *)
(* size to be had                                                           *)
C32_Witness ==
    /\ last.op = "probe" /\ last.rc = 0
    /\ th260_cdev[last.minor].dmabuf_order \in 1 .. (get_order(512 * 1024) - 1)
    /\ Cardinality(kern.avail) >= 2
    /\ Len(OrdersTried(last.eff)) >= 2


---------------------------------------------------------------------------
(* Properties of the bounds of the copies made by th260_read *)

(* C33: every copy_to_user of th260_read (line 579) takes no more bytes    *)
(* out of the DMA buffer than the buffer holds, and the bytes a call has    *)
(* copied to the caller's destination never exceed the caller's count.      *)
C33_CopyWithinBounds ==
    [][\A t \in Readers :
          (rd[t].pc = "L579" /\ rd'[t].pc = "L585")
          => /\ pcard(t).bytes_done <= Capacity(t)
             /\ rd'[t].copied <= rd[t].N]_vars


---------------------------------------------------------------------------
(* Specification SpecDetach: a card is detached while a thread holds an     *)
(* open file of it.  th260_open (lines 474-478) stores the address of the   *)
(* slot in the file and takes no reference, th260_remove waits for no       *)
(* caller, so the thread goes on calling read on the slot.  free_irq waits  *)
(* for a running handler, so the detach does not overtake the handler.      *)
(* An access to a register window that is no longer mapped is undefined:    *)
(* the thread is killed with the lock held (oops), the write is lost, or    *)
(* it reaches the device through a stale translation.                       *)

UnmappedOutcomes == {"oops", "lost", "device"}

WindowMapped(m) == th260_cdev[m].bar0base[1] \in kern.iomaps

(* th260_dma_start, lines 494-528, on a window that is not mapped *)
DmaUnmapped(t, outcome) ==
    LET r == rd[t]
        c == pcard(t)
    IN  /\ r.pc \in {"D494", "D512"}
        /\ ~WindowMapped(r.card)
        /\ CASE outcome = "oops" ->
                  /\ SetRd(t, [r EXCEPT !.pc = "oops"])
                  /\ UNCHANGED <<cardVars, hwVars, isr, outcomes, mmapVars,
                                 lifeVars>>
             [] outcome = "lost" ->
                  /\ SetRd(t, IF r.pc = "D494"
                              THEN [r EXCEPT !.pc = "D512",
                                             !.s = DmaStartSearch(c),
                                             !.dma = "none", !.fired = TRUE,
                                             !.open = TRUE]
                              ELSE [r EXCEPT !.pc = "L568",
                                             !.dma = IF DmaAccepts(c, r.s)
                                                     THEN "started"
                                                     ELSE "rejected"])
                  /\ UNCHANGED <<cardVars, hwVars, isr, outcomes, mmapVars,
                                 lifeVars>>
             [] outcome = "device" -> DmaD494(t) \/ DmaD512(t)

ReaderStepOpen(t) ==
    \/ ReadCall(t, BUFFER_SIZE(0), FALSE, TRUE)
    \/ /\ rd[t].pc \in {"D494", "D512"} => WindowMapped(rd[t].card)
       /\ ReaderStepPlain(t)
    \/ \E outcome \in UnmappedOutcomes : DmaUnmapped(t, outcome)

(* th260_remove called by the PCI core (unbind, hot unplug) *)
RemoveBound(p) ==
    /\ pci[p].bound
    /\ isr[pci[p].drvdata[1]].pc = "idle"
    /\ Remove(p)

InitDetach == InitReaders

NextDetach ==
    \/ ReaderStepOpen(1)
    \/ IsrStep(0)
    \/ HwComplete(1)
    \/ RemoveBound(1)

SpecDetach == InitDetach /\ [][NextDetach]_vars

---------------------------------------------------------------------------
(* Properties of the register accesses around a detach *)

(* the step of thread t writes registers: the reset pulse of line 494, the *)
(* programming writes of lines 524-528                                      *)
WritesRegisters(t) ==
    /\ rd'[t] # rd[t]
    /\ \/ rd[t].pc = "D494"
       \/ rd[t].pc = "D512" /\ DmaAccepts(pcard(t), rd[t].s)

(* the step of the handler of card m reads or writes registers: lines 779, *)
(* 790-797                                                                  *)
HandlerTouchesRegisters(m) ==
    /\ isr'[m] # isr[m]
    /\ isr[m].pc \in {"idle", "L790"}

(* C34: a register of a card is read or written only while the card's      *)
(* register window is mapped: by th260_dma_start on behalf of a read, by    *)
(* th260_interrupt and by the th260_reset of a detach.                      *)
C34_NoRegisterAccessAfterUnmap ==
    /\ [][\A t \in DOMAIN rd :
             WritesRegisters(t) => WindowMapped(rd[t].card)]_vars
    /\ [][\A m \in Minors :
             HandlerTouchesRegisters(m) => WindowMapped(m)]_vars
    /\ [](\A m \in Minors : <<"th260_reset", m>> \notin kern.faults)


---------------------------------------------------------------------------
(* Properties of the occupancy of the device table *)

(* C35: the slots of th260_cdev that are occupied are as many as the cards *)
(* attached, and th260_probe fails for want of a slot only when MAX_DEVICES *)
(* cards are attached.                                                      *)
C35_SlotsMatchAttached ==
    /\ Cardinality(Minors \ FreeSlots) = Cardinality(Attached)
    /\ (last.op = "probe" /\ last.fail = "slot")
          => Cardinality(Attached) = MAX_DEVICES


---------------------------------------------------------------------------
(* Properties of the wake-up of a waiting reader *)

(* C36: the completion flag set by th260_interrupt (line 808) for a thread *)
(* that has triggered a burst and has not yet left the wait of line 570     *)
(* stays set until that thread has seen it, and a thread that leaves the    *)
(* wait with the flag set has rc > 0 and goes on to the copy, it does not   *)
(* time out.                                                                *)
C36_NoLostWakeup ==
    /\ [][\A t \in DOMAIN rd :
             (rd[t].pc \in {"L568", "L570"} /\ rd'[t].pc \in {"L568", "L570"}
                /\ pcard(t).irq_received # 0)
             => th260_cdev'[rd[t].card].irq_received # 0]_vars
    /\ [][\A t \in DOMAIN rd :
             (rd[t].pc = "L570" /\ rd'[t].pc # "L570"
                /\ pcard(t).irq_received # 0)
             => (rd'[t].pc = "L578" /\ rd'[t].rc > 0)]_vars

---------------------------------------------------------------------------
(* Properties of the bursts th260_dma_start triggers *)

(* C38: whenever th260_dma_start writes the enable bit (line 528) the      *)
(* burst it has programmed has a TLP count of at least 1 and dmacount is    *)
(* not 0.                                                                   *)
C38_NoEmptyBurst ==
    [][\A t \in DOMAIN rd :
          (rd[t].pc = "D512" /\ rd'[t].pc = "L568" /\ rd'[t].dma = "started")
          => (rd[t].s.tlpcount >= 1 /\ pcard(t).dmacount > 0)]_vars


---------------------------------------------------------------------------
(* Properties of a repeated detach *)

(* the kernel objects of the card in slot m: device node, register window, *)
(* DMA buffer, character device, interrupt handler                          *)
CardObjects(cards, k, m) ==
    LET c == cards[m] IN
    [node |-> m \in k.nodes,
     window |-> c.bar0base[1] \in k.iomaps,
     buffer |-> <<c.dmabuf, c.dmabuf_order>> \in k.pages,
     chardev |-> c.cdev \in k.cdevs,
     handler |-> \E p \in DOMAIN pci : <<p, m>> \in k.irqs]

(* slot m holds the card of an attached device other than p *)
HoldsOtherCard(m, p) ==
    \E q \in DOMAIN pci :
       /\ q # p
       /\ pci[q].bound
       /\ pci[q].drvdata = <<m>>
       /\ th260_cdev[m].pci_dev = q

(* C37: a th260_remove called for a device leaves the slot, the device     *)
(* node, the register window, the DMA buffer, the character device and the  *)
(* interrupt handler of every card attached for another device as they      *)
(* are, also when it is a repeated call whose driver data name a slot that  *)
(* has been cleared and taken by that other card.                           *)
C37_DetachSparesOtherCards ==
    [][(last' # last /\ last'.op = "remove")
       => \A m \in Minors :
             HoldsOtherCard(m, last'.pdev)
             => /\ th260_cdev'[m] = th260_cdev[m]
                /\ CardObjects(th260_cdev', kern', m)
                      = CardObjects(th260_cdev, kern, m)]_vars


---------------------------------------------------------------------------
(* Properties of the busy flag *)

(* C39: while no mapping of the card exists and no th260_mmap call is in   *)
(* progress, busy is 0; a th260_mmap that returns -EINVAL or -EAGAIN has    *)
(* cleared the flag it set; and -EBUSY is returned only while a mapping     *)
(* exists or another th260_mmap call is in progress.                        *)
C39_BusyOnlyWithMapping ==
    /\ []((TotalVmas = 0 /\ \A t \in Mappers : ~InMmap(t))
             => \A m \in Minors : th260_cdev[m].busy = 0)
    /\ [][\A t \in Mappers :
             (InMmap(t) /\ mm'[t].pc = "ret"
                /\ mm'[t].ret \in {-EINVAL, -EAGAIN})
             => th260_cdev'[mm[t].card].busy = 0]_vars
    /\ [][\A t \in Mappers :
             (InMmap(t) /\ mm'[t].pc = "ret" /\ mm'[t].ret = -EBUSY)
             => (TotalVmas > 0 \/ OthersInMmap(t))]_vars

(* C39 witness: a th260_mmap has failed in remap_pfn_range after setting   *)
(* the flag, and the card is free again                                     *)
C39_Witness ==
    \E t \in Mappers :
       /\ mm[t].pc = "ret" /\ mm[t].ret = -EAGAIN
       /\ mcard(t).busy = 0
       /\ TotalVmas = 0
       /\ \A u \in Mappers : ~InMmap(u)


---------------------------------------------------------------------------
(* Specification SpecCaps: attach, use and detach of cards whose           *)
(* transfer-capability register holds any value.  The register is a        *)
(* uint32_t; a value of 2^31 or more is written as the integer with the     *)
(* same bit pattern in two's complement, for which \div 256 and % 8 (floor  *)
(* division and its non-negative remainder) select bits 8..10 as >> 8 and   *)
(* & 7 do on the unsigned value.  The samples take every value of bits      *)
(* 8..10 with all other bits clear, with bits 0..7 set, with bits 11..30    *)
(* set, and with every other bit including bit 31 set.                      *)

DltrsSamples ==
    {b * 256 + rest : b \in 0 .. 7,
                      rest \in {0, 255, 2147483647 - 2047, -1 - 1792}}

(* the card in slot 0 is attached and is the card of device p *)
HoldsDevice(p) == InUse(0) /\ RegDev(th260_cdev[0]) = p

InitCaps ==
    /\ th260_cdev = th260_cdev_init
    /\ lock = [m \in Minors |-> Unlocked]
    /\ \E d \in DltrsSamples :
          hw = [p \in PciDevs |->
                  [HwIdle EXCEPT !.bar0 = BAR_0_LEN * p,
                                 !.dltrsstat = IF p = 1 THEN d
                                               ELSE DltrsOf(p)]]
    /\ iolog = <<>>
    /\ rd = [t \in Readers |-> IdleReader(0)]
    /\ isr = [m \in Minors |-> IdleIsr]
    /\ outcomes = {}
    /\ mm = [t \in Mappers |-> IdleMapper(0)]
    /\ mlog = <<>>
    /\ pci = [p \in PciDevs |-> IdlePci]
    /\ kern = NoKern
    /\ last = NoCall

NextCaps ==
    \/ \E p \in PciDevs : Probe(p, "none", 0)
    \/ pci[1].bound /\ RemoveQuiet(1)
    \/ HoldsDevice(1) /\ ReaderStepPlain(1)
    \/ HoldsDevice(1) /\ IsrStep(0)
    \/ HoldsDevice(1) /\ HwComplete(1)
    \/ HoldsDevice(1) /\ Quiet(0) /\ Ioctl(0, "IOCTL_GET_SERIAL", TRUE, TRUE)

SpecCaps == InitCaps /\ [][NextCaps]_vars


---------------------------------------------------------------------------
(* Properties of the maximum TLP size *)

(* C40: whatever the transfer-capability register reads, a th260_probe     *)
(* that read it stores 32 << bits 8..10, a power of two between 32 and      *)
(* 4096, and does not fail at the range test of line 916; and the           *)
(* maxtlpsize of a slot is changed by no step but a th260_probe on that     *)
(* slot.                                                                    *)
C40_MaxTlpInRange ==
    /\ [][(/\ kern'.nprobe = kern.nprobe + 1
           /\ StepsAt(last'.eff, <<"ioread32", TRANS_SIZE_OFFSET>>) # {})
          => LET c == th260_cdev'[last'.minor]
                 d == hw[last'.pdev].dltrsstat
             IN  /\ last'.fail # "maxtlp"
                 /\ c.maxtlpsize \in MaxTlpSizes
                 /\ c.maxtlpsize >= 32 /\ c.maxtlpsize <= 4096
                 /\ \E b \in 0 .. 7 :
                       /\ c.maxtlpsize = 32 * Pow2(b)
                       /\ \E lo \in 0 .. 255 :
                             (d - 256 * b - lo) % 2048 = 0]_vars
    /\ [][\A m \in Minors :
             th260_cdev'[m].maxtlpsize # th260_cdev[m].maxtlpsize
             => /\ last' # last
                /\ last'.op = "probe"
                /\ last'.minor = m]_vars

(* C40 witness: a card whose register has bit 31 and bits 8..10 set is     *)
(* attached with a maximum TLP size of 4096 and a read call on it has       *)
(* returned                                                                 *)
C40_Witness ==
    /\ th260_cdev[0].pci_dev # NULL
    /\ hw[RegDev(th260_cdev[0])].dltrsstat < 0
    /\ th260_cdev[0].maxtlpsize = 4096
    /\ kern.nprobe >= 2
    /\ \E t \in Readers : rd[t].pc = "ret" /\ rd[t].rc > 0

===========================================================================
